---- MODULE Spec2Model ----
(***************************************************************************)
(* Double-entry ledger: posting engine, idempotency guard, ledger store    *)
(* and balance engine, as a state machine over the four database tables    *)
(* and the request handlers that run against them.                         *)
(*                                                                         *)
(* Decimal amounts of a request are integers in thousandths of a currency  *)
(* unit (milli-units), so 0.01 is 10 and 0.005 is 5; persisted amounts are *)
(* integer cents.  Calendar dates are integers.  Entry and account ids     *)
(* (uuids in the code) are positive integers, 0 standing for null.         *)
(***************************************************************************)
EXTENDS Integers, Sequences, FiniteSets, TLC

VARIABLES
  accounts,          \* table accounts: rows [id, code, name, type]
  journal_entries,   \* table journal_entries (committed rows)
  journal_lines,     \* table journal_lines (committed rows)
  idempotency_keys,  \* table idempotency_keys (committed rows)
  pc,                \* per handler: the await it is suspended at
  req,               \* per handler: validated request data and idempotency key
  tx,                \* per handler: rows written inside its open transaction
  res,               \* per handler: outcome of its last call
  origin,            \* history: entry id -> key and line count of the call that inserted it
  TZ,                \* the time zone of the server process
  money,             \* the money codec's argument and results (a call outside any handler)
  limiter,           \* AuthMiddleware.rateLimit: the clock, the requests Map, and what it let through
  auth,              \* table api_keys and the request AuthMiddleware.validateApiKey is working on
  pool               \* Database.transaction: the pool's client, the statements sent and the outcome

vars == <<accounts, journal_entries, journal_lines, idempotency_keys, pc, req, tx, res, origin, TZ, money, limiter, auth, pool>>

dbvars == <<accounts, journal_entries, journal_lines, idempotency_keys>>

-----------------------------------------------------------------------------
(* Bounds and input sets *)

MaxEntries == 2

MaxDate == 3

\* cap on the logical clock that orders transaction start times
MaxTimestamp == 3

\* the current calendar date
Today == 2

Procs == {"p1", "p2"}

\* time zones of the server: at UTC, and behind UTC
Zones == {"UTC", "America/New_York"}

Dates == 1..MaxDate

NoId == 0

NoKey == ""

NoDate == 0

Keys == {"k1"}

Narrations == {"n1"}

AccountInputs ==
  { [code |-> "1001", name |-> "Cash",    type |-> "Asset"],
    [code |-> "3001", name |-> "Capital", type |-> "Equity"] }

Codes == {a.code : a \in AccountInputs}

\* uuidv4() for an account row: one fixed fresh value per code
AccountUuid(code) == CHOOSE i \in 1..4 : <<"1001", "3001", "4001", "5001">>[i] = code

\* request amounts in milli-units (0.01 is 10)
Amounts == {0, 10}

LineInputs == [account_code : Codes, debit : Amounts, credit : Amounts]

Dr(code, amount) == [account_code |-> code, debit |-> amount, credit |-> 0]

Cr(code, amount) == [account_code |-> code, debit |-> 0, credit |-> amount]

\* candidates with sub-cent amounts, a single line, unequal totals, three lines,
\* a negative amount, amounts that round to zero
SampleLineSeqs ==
  { <<Dr("1001", 5), Cr("3001", 14)>>,
    <<Dr("1001", 10)>>,
    <<Dr("1001", 20), Cr("3001", 10)>>,
    <<Dr("1001", 10), Cr("3001", 10), Dr("3001", 10)>>,
    <<Dr("1001", 0 - 10), Cr("3001", 10)>>,
    <<Dr("1001", 4), Cr("3001", 4)>> }

\* every two-line candidate over Amounts, and the samples
LineSeqs == {<<l, m>> : l \in LineInputs, m \in LineInputs} \cup SampleLineSeqs

EntryIds == 1..MaxEntries

\* the properties of a request body in the order of journalEntrySchema
SchemaKeys == <<"date", "narration", "lines", "reverses_entry_id">>

\* a request body: its values, and keys, the order in which the object lists its
\* properties (reverses_entry_id is listed only when it is given)
Payloads ==
  [date : Dates, narration : Narrations, lines : LineSeqs,
   reverses_entry_id : {NoId} \cup (1..(MaxEntries - 1)), keys : {SchemaKeys}]

NoPayload == [date |-> 0, narration |-> "", lines |-> <<>>, reverses_entry_id |-> NoId, keys |-> <<>>]

NoAccount == [code |-> "", name |-> "", type |-> ""]

NoReq == [payload |-> NoPayload, key |-> NoKey, entry_id |-> NoId, account |-> NoAccount]

NoTx == [open |-> FALSE, entry |-> {}, lines |-> {}]

NoRes == [status |-> "none", msg |-> "", entry_id |-> NoId]

-----------------------------------------------------------------------------
(* Pure helpers *)

Range(s) == {s[i] : i \in DOMAIN s}

RECURSIVE SumField(_, _)
SumField(S, f) ==
  IF S = {} THEN 0
  ELSE LET x == CHOOSE y \in S : TRUE IN x[f] + SumField(S \ {x}, f)

RECURSIVE SumSeqField(_, _)
SumSeqField(s, f) == IF s = <<>> THEN 0 ELSE Head(s)[f] + SumSeqField(Tail(s), f)

MaxOf(S) == IF S = {} THEN 0 ELSE CHOOSE x \in S : \A y \in S : y <= x

\* Math.round of n/d for d > 0: nearest integer, halves towards +infinity
MathRound(n, d) == (2 * n + d) \div (2 * d)

\* Money.toCents: Math.round(amount * 100), amount in milli-units
Money_toCents(amount) == MathRound(amount, 10)

\* Money.fromCents: cents / 100, as milli-units
Money_fromCents(cents) == cents * 10

\* no call of the money codec is in progress
NoMoney == [step |-> "none", hundredths |-> <<>>, amount |-> <<>>, cents |-> <<>>, back |-> <<>>]

\* rateLimit's constants
WINDOW_SIZE == 60000

MAX_REQUESTS == 100

\* client addresses (req.ip)
Clients == {"ip1", "ip2"}

\* the instants Date.now() takes: a window's start, its last millisecond, the one after
Ticks == <<0, WINDOW_SIZE, WINDOW_SIZE + 1>>

\* the process has started: the Map is empty and nothing was answered
NoLimiter ==
  [now |-> 0, requests |-> <<>>,
   passed |-> [k \in Clients |-> [i \in DOMAIN Ticks |-> 0]],
   last |-> [key |-> "", status |-> 0, code |-> "", next |-> FALSE]]

\* no request is at the key check; table api_keys is empty
NoAuth ==
  [api_keys |-> {}, step |-> "idle", method |-> "", path |-> "", header |-> "",
   status |-> 0, handler |-> "", next |-> FALSE, apiKey |-> ""]

\* no transaction was asked for
NoPool ==
  [step |-> "idle", calls |-> 0, sent |-> <<>>, written |-> {}, committed |-> {},
   taken |-> 0, released |-> 0, outcome |-> "", caught |-> "", error |-> ""]

\* Joi number().precision(2) with convert: rounds the value to two decimals
JoiPrecision2(amount) == MathRound(amount, 10) * 10

-----------------------------------------------------------------------------
(* Validation (utils/validation), pure *)

\* journalLineSchema: min(0) on both sides, then the custom rule on the converted values
journalLineSchema_ok(l) ==
  /\ l.debit >= 0
  /\ l.credit >= 0
  /\ ~(JoiPrecision2(l.debit) > 0 /\ JoiPrecision2(l.credit) > 0)
  /\ ~(JoiPrecision2(l.debit) = 0 /\ JoiPrecision2(l.credit) = 0)

journalLineSchema_value(l) ==
  [account_code |-> l.account_code,
   debit  |-> JoiPrecision2(l.debit),
   credit |-> JoiPrecision2(l.credit)]

\* the custom rule of journalEntrySchema.lines: totals in cents, Math.round(x * 100)
RECURSIVE TotalCents(_, _)
TotalCents(lines, side) ==
  IF lines = <<>> THEN 0
  ELSE MathRound(Head(lines)[side], 10) + TotalCents(Tail(lines), side)

\* the custom rule of journalEntrySchema.date: new Date(value) is midnight UTC of the
\* candidate's date, today.setHours(23, 59, 59, 999) is the end of today in the
\* server's zone; behind UTC that instant lies on the next UTC day
EndOfToday == IF TZ = "UTC" THEN Today ELSE Today + 1

futureDate(date) == date > EndOfToday

journalEntrySchema_ok(body) ==
  /\ ~futureDate(body.date)
  /\ Len(body.lines) >= 2
  /\ \A i \in DOMAIN body.lines : journalLineSchema_ok(body.lines[i])
  /\ LET v == [i \in DOMAIN body.lines |-> journalLineSchema_value(body.lines[i])]
     IN /\ TotalCents(v, "debit") = TotalCents(v, "credit")
        /\ TotalCents(v, "debit") # 0

journalEntrySchema_value(body) ==
  [date |-> body.date,
   narration |-> body.narration,
   lines |-> [i \in DOMAIN body.lines |-> journalLineSchema_value(body.lines[i])],
   reverses_entry_id |-> body.reverses_entry_id,
   keys |-> body.keys]

\* the errors of one item of lines: a failing key ends the item before its custom rule
journalLineSchema_messages(l) ==
  LET keys == (IF l.debit < 0 THEN <<"debit must be greater than or equal to 0">> ELSE <<>>) \o
              (IF l.credit < 0 THEN <<"credit must be greater than or equal to 0">> ELSE <<>>)
      debit == JoiPrecision2(l.debit)
      credit == JoiPrecision2(l.credit)
  IN IF keys # <<>> THEN keys
     ELSE IF debit > 0 /\ credit > 0 THEN <<"A line cannot have both debit and credit amounts">>
     ELSE IF debit = 0 /\ credit = 0 THEN <<"A line must have either a debit or credit amount">>
     ELSE <<>>

RECURSIVE ItemMessages(_)
ItemMessages(lines) ==
  IF lines = <<>> THEN <<>>
  ELSE journalLineSchema_messages(Head(lines)) \o ItemMessages(Tail(lines))

\* the errors of the key lines: failing items end it; otherwise the rules min(2) and
\* custom both run, abortEarly being false
LinesMessages(lines) ==
  LET v == [i \in DOMAIN lines |-> journalLineSchema_value(lines[i])]
  IN IF ItemMessages(lines) # <<>> THEN ItemMessages(lines)
     ELSE (IF Len(lines) < 2 THEN <<"At least 2 lines are required for a journal entry">> ELSE <<>>) \o
          (IF TotalCents(v, "debit") # TotalCents(v, "credit")
           THEN <<"Total debits must equal total credits">>
           ELSE IF TotalCents(v, "debit") = 0
           THEN <<"Total amount must be greater than zero">>
           ELSE <<>>)

\* the errors of journalEntrySchema, key by key in the order of the schema
journalEntrySchema_messages(body) ==
  (IF futureDate(body.date) THEN <<"Entry date cannot be in the future">> ELSE <<>>) \o
  LinesMessages(body.lines)

\* error.details.map(detail => detail.message).join(', ')
RECURSIVE JoinMessages(_)
JoinMessages(messages) ==
  IF messages = <<>> THEN ""
  ELSE IF Len(messages) = 1 THEN Head(messages)
  ELSE Head(messages) \o ", " \o JoinMessages(Tail(messages))

\* variant: no check for an account that appears twice
RECURSIVE DoubleEntryLineError_NoDuplicateCheck(_, _)
DoubleEntryLineError_NoDuplicateCheck(lines, seen) ==
  IF lines = <<>> THEN ""
  ELSE LET line == Head(lines)
           debitCents == Money_toCents(line.debit)
           creditCents == Money_toCents(line.credit)
       IN IF debitCents < 0 \/ creditCents < 0 THEN "must be non-negative"
          ELSE IF debitCents > 0 /\ creditCents > 0 THEN "has both debit and credit"
          ELSE IF debitCents = 0 /\ creditCents = 0 THEN "has zero amount"
          ELSE DoubleEntryLineError_NoDuplicateCheck(Tail(lines), seen)

\* JournalService.validateDoubleEntryRules: the message of the first throw, "" when none
RECURSIVE DoubleEntryLineError(_, _)
DoubleEntryLineError(lines, seen) ==
  IF lines = <<>> THEN ""
  ELSE LET line == Head(lines)
           debitCents == Money_toCents(line.debit)
           creditCents == Money_toCents(line.credit)
       IN IF line.account_code \in seen THEN "appears multiple times"
          ELSE IF debitCents < 0 \/ creditCents < 0 THEN "must be non-negative"
          ELSE IF debitCents > 0 /\ creditCents > 0 THEN "has both debit and credit"
          ELSE IF debitCents = 0 /\ creditCents = 0 THEN "has zero amount"
          ELSE DoubleEntryLineError(Tail(lines), seen \cup {line.account_code})

RECURSIVE TotalToCents(_, _)
TotalToCents(lines, side) ==
  IF lines = <<>> THEN 0
  ELSE Money_toCents(Head(lines)[side]) + TotalToCents(Tail(lines), side)

validateDoubleEntryRules(entryData) ==
  LET lineError == DoubleEntryLineError(entryData.lines, {})
      totalDebits == TotalToCents(entryData.lines, "debit")
      totalCredits == TotalToCents(entryData.lines, "credit")
  IN IF lineError # "" THEN lineError
     ELSE IF totalDebits # totalCredits THEN "not balanced"
     ELSE IF totalDebits = 0 THEN "total must be greater than zero"
     ELSE IF Len(entryData.lines) < 2 THEN "at least 2 lines"
     ELSE ""

-----------------------------------------------------------------------------
(* Idempotency hash *)

\* the property names of the requests in the order of Array.prototype.sort
SortedNames ==
  <<"account_code", "credit", "date", "debit", "lines", "narration", "reverses_entry_id">>

\* Object.keys(requestBody): the own properties in the order the object lists them;
\* reverses_entry_id is absent when not given
RequestKeys(body) ==
  LET present(k) == k # "reverses_entry_id" \/ body.reverses_entry_id # NoId
  IN SelectSeq(body.keys, present)

\* keys.sort()
SortKeys(keys) ==
  LET listed(k) == \E i \in DOMAIN keys : keys[i] = k
  IN SelectSeq(SortedNames, listed)

\* the serialized properties of an object, separated by commas
RECURSIVE JoinProperties(_)
JoinProperties(properties) ==
  IF properties = <<>> THEN ""
  ELSE IF Len(properties) = 1 THEN Head(properties)
  ELSE Head(properties) \o "," \o JoinProperties(Tail(properties))

\* JSON.stringify(value, allowList): an array replacer keeps, in every object of the
\* value (nested ones too), only the properties it names, in the order of the list
StringifyLine(line, allowList) ==
  LET own(k) == k \in {"account_code", "debit", "credit"}
      kept == SelectSeq(allowList, own)
  IN "{" \o JoinProperties([i \in DOMAIN kept |->
                              kept[i] \o ":" \o (IF kept[i] = "account_code"
                                                 THEN line[kept[i]]
                                                 ELSE ToString(line[kept[i]]))]) \o "}"

\* JSON.stringify(requestBody, allowList): the listed properties the object has
Stringify(body, allowList) ==
  LET value(k) ==
        IF k = "lines"
        THEN "[" \o JoinProperties([j \in DOMAIN body.lines |->
                                      StringifyLine(body.lines[j], allowList)]) \o "]"
        ELSE IF k = "narration" THEN body.narration
        ELSE ToString(body[k])
  IN "{" \o JoinProperties([i \in DOMAIN allowList |->
                              allowList[i] \o ":" \o value(allowList[i])]) \o "}"

\* variant: the body is serialized with its keys in the order the object lists them
hashRequest_Unsorted(body) == Stringify(body, RequestKeys(body))

\* IdempotencyRepository.hashRequest; the digest stands for the string it is taken of
hashRequest(body) == Stringify(body, SortKeys(RequestKeys(body)))

-----------------------------------------------------------------------------
(* Queries (repositories), evaluated on the committed tables *)

\* IdempotencyRepository.findByKey
findByKey(key) == {r \in idempotency_keys : r.key = key}

\* JournalRepository.findById: the entry row
findById(id) == {e \in journal_entries : e.id = id}

\* JournalRepository.findById: the lines, JOIN accounts, ORDER BY line_index
LinesOf(id) ==
  {[line_index |-> l.line_index, account_code |-> a.code,
    debit_cents |-> l.debit_cents, credit_cents |-> l.credit_cents] :
      <<l, a>> \in {<<m, b>> \in journal_lines \X accounts : m.entry_id = id /\ m.account_id = b.id}}

\* variant: the lines come ordered by account code
RECURSIVE OrderByAccountCode(_)
OrderByAccountCode(S) ==
  IF S = {} THEN <<>>
  ELSE LET first == CHOOSE x \in S : \A y \in S : AccountUuid(x.account_code) <= AccountUuid(y.account_code)
       IN <<first>> \o OrderByAccountCode(S \ {first})

RECURSIVE OrderByLineIndex(_)
OrderByLineIndex(S) ==
  IF S = {} THEN <<>>
  ELSE LET first == CHOOSE x \in S : \A y \in S : x.line_index <= y.line_index
       IN <<first>> \o OrderByLineIndex(S \ {first})

\* AccountRepository.findByCode
findByCode(code) == {a \in accounts : a.code = code}

\* AccountRepository.getAccountsByCodesWithValidation: the codes not found
missingCodes(codes) == {c \in codes : \A a \in accounts : a.code # c}

\* accounts a LEFT JOIN journal_lines jl LEFT JOIN journal_entries je, for account a
LeftJoin(a) ==
  LET ls == {l \in journal_lines : l.account_id = a.id}
  IN IF ls = {}
     THEN {[account_id |-> a.id, entry_id |-> NoId, line_index |-> 0,
            debit_cents |-> 0, credit_cents |-> 0, date_null |-> TRUE, date |-> 0]}
     ELSE {[account_id |-> a.id, entry_id |-> l.entry_id, line_index |-> l.line_index,
            debit_cents |-> l.debit_cents, credit_cents |-> l.credit_cents,
            date_null |-> findById(l.entry_id) = {},
            date |-> MaxOf({e.date : e \in findById(l.entry_id)})] : l \in ls}

\* variant: credit-normal accounts are shown with credits - debits
calculateDisplayBalance_CreditNormal(accountType, debits, credits) ==
  IF accountType \in {"Liability", "Equity", "Revenue"}
  THEN credits - debits
  ELSE debits - credits

\* BalanceRepository.calculateDisplayBalance
calculateDisplayBalance(accountType, debits, credits) ==
  IF accountType \in {"Liability", "Equity", "Revenue"}
  THEN debits - credits
  ELSE debits - credits

\* BalanceRepository.getAccountBalance: the result rows (empty: the method returns null)
getAccountBalance_group(a, asOfDate) ==
  {r \in LeftJoin(a) : asOfDate # NoDate => (~r.date_null /\ r.date <= asOfDate)}

getAccountBalance_rows(accountCode, asOfDate) ==
  {[account_code |-> a.code, account_type |-> a.type,
    debits |-> SumField(getAccountBalance_group(a, asOfDate), "debit_cents"),
    credits |-> SumField(getAccountBalance_group(a, asOfDate), "credit_cents")] :
      a \in {b \in accounts : b.code = accountCode /\ getAccountBalance_group(b, asOfDate) # {}}}

\* variant: the date range is applied to the account's first line only
getTrialBalance_rows_FirstLineOnly(fromDate, toDate) ==
  LET kept(b) == {r \in LeftJoin(b) : r.date_null \/ (r.date >= fromDate /\ r.date <= toDate /\ r.line_index = 0)}
  IN {[account_code |-> a.code, account_type |-> a.type,
       debits |-> SumField(kept(a), "debit_cents"),
       credits |-> SumField(kept(a), "credit_cents"),
       balance |-> calculateDisplayBalance(a.type, SumField(kept(a), "debit_cents"),
                                           SumField(kept(a), "credit_cents"))] :
         a \in {b \in accounts : kept(b) # {}}}

\* BalanceRepository.getTrialBalance: the per-account rows
getTrialBalance_rows(fromDate, toDate) ==
  LET kept(b) == {r \in LeftJoin(b) : r.date_null \/ (r.date >= fromDate /\ r.date <= toDate)}
  IN {[account_code |-> a.code, account_type |-> a.type,
       debits |-> SumField(kept(a), "debit_cents"),
       credits |-> SumField(kept(a), "credit_cents"),
       balance |-> calculateDisplayBalance(a.type, SumField(kept(a), "debit_cents"),
                                           SumField(kept(a), "credit_cents"))] :
         a \in {b \in accounts : kept(b) # {}}}

getTrialBalance_totals(fromDate, toDate) ==
  [debits |-> SumField(getTrialBalance_rows(fromDate, toDate), "debits"),
   credits |-> SumField(getTrialBalance_rows(fromDate, toDate), "credits")]

-----------------------------------------------------------------------------
(* Initial state: empty tables, every handler idle *)

InitService ==
  /\ accounts = {}
  /\ journal_entries = {}
  /\ journal_lines = {}
  /\ idempotency_keys = {}
  /\ pc = [p \in Procs |-> "idle"]
  /\ req = [p \in Procs |-> NoReq]
  /\ tx = [p \in Procs |-> NoTx]
  /\ res = [p \in Procs |-> NoRes]
  /\ origin = <<>>
  /\ TZ \in Zones

Init ==
  /\ InitService
  /\ money = NoMoney
  /\ limiter = NoLimiter
  /\ auth = NoAuth
  /\ pool = NoPool

\* a handler returns or throws: its outcome is kept until its next call
Finish(p, outcome) ==
  /\ pc' = [pc EXCEPT ![p] = "idle"]
  /\ req' = [req EXCEPT ![p] = NoReq]
  /\ res' = [res EXCEPT ![p] = outcome]

Throw(status, msg) == [NoRes EXCEPT !.status = status, !.msg = msg]

Return(msg, id) == [NoRes EXCEPT !.status = "ok", !.msg = msg, !.entry_id = id]

\* rows an open transaction or the committed table holds: ids and timestamps in use
EntriesInUse == journal_entries \cup UNION {tx[p].entry : p \in Procs}

\* calls that may still insert an entry
Creating == {p \in Procs : pc[p] \in {"idem", "dup", "resolve", "reversed", "begin", "lines"}}

\* the tables hold at most MaxEntries entries: a call that can insert needs a free slot
FreeSlot(key) ==
  \/ Cardinality(journal_entries) + Cardinality(Creating) < MaxEntries
  \/ key # NoKey /\ findByKey(key) # {}

-----------------------------------------------------------------------------
(* AccountService.createAccount *)

createAccount(p, accountData) ==
  /\ pc[p] = "idle"
  /\ IF findByCode(accountData.code) # {}
     THEN Finish(p, Throw("ValidationError", "Account already exists"))
     ELSE /\ pc' = [pc EXCEPT ![p] = "acctInsert"]
          /\ req' = [req EXCEPT ![p] = [NoReq EXCEPT !.account = accountData]]
          /\ res' = [res EXCEPT ![p] = NoRes]
  /\ UNCHANGED <<dbvars, tx, origin, TZ, money, limiter, auth, pool>>

\* variant: the insert goes through whether or not the code is taken
AccountRepository_create_NoUnique(p) ==
  /\ pc[p] = "acctInsert"
  /\ accounts' = accounts \cup
        {[id |-> AccountUuid(req[p].account.code), code |-> req[p].account.code,
          name |-> req[p].account.name, type |-> req[p].account.type]}
  /\ Finish(p, Return("Account created", NoId))
  /\ UNCHANGED <<journal_entries, journal_lines, idempotency_keys, tx, origin, TZ, money, limiter, auth, pool>>

\* AccountRepository.create: INSERT INTO accounts, code is UNIQUE
AccountRepository_create(p) ==
  /\ pc[p] = "acctInsert"
  /\ IF findByCode(req[p].account.code) # {}
     THEN /\ Finish(p, Throw("ConflictError", "Account already exists"))
          /\ UNCHANGED accounts
     ELSE /\ accounts' = accounts \cup
             {[id |-> AccountUuid(req[p].account.code), code |-> req[p].account.code,
               name |-> req[p].account.name, type |-> req[p].account.type]}
          /\ Finish(p, Return("Account created", NoId))
  /\ UNCHANGED <<journal_entries, journal_lines, idempotency_keys, tx, origin, TZ, money, limiter, auth, pool>>

-----------------------------------------------------------------------------
(* JournalService.createJournalEntry, one action per await *)

\* validateInput(journalEntrySchema, entryData), then the branch on idempotencyKey
EnterCreate(p, entryData, idempotencyKey) ==
  IF ~journalEntrySchema_ok(entryData)
  THEN Finish(p, Throw("ValidationError", JoinMessages(journalEntrySchema_messages(entryData))))
  ELSE /\ pc' = [pc EXCEPT ![p] = IF idempotencyKey # NoKey THEN "idem" ELSE "resolve"]
       /\ req' = [req EXCEPT ![p] = [NoReq EXCEPT !.payload = journalEntrySchema_value(entryData),
                                                  !.key = idempotencyKey]]
       /\ res' = [res EXCEPT ![p] = NoRes]

createJournalEntry(p, entryData, idempotencyKey) ==
  /\ pc[p] = "idle"
  /\ FreeSlot(idempotencyKey)
  /\ EnterCreate(p, entryData, idempotencyKey)
  /\ UNCHANGED <<dbvars, tx, origin, TZ, money, limiter, auth, pool>>

\* variant: the check reserves an unrecorded key before the candidate is validated
validateRequest_ReservesKey(p) ==
  /\ pc[p] = "idem"
  /\ LET existingRecord == findByKey(req[p].key)
     IN IF existingRecord = {}
        THEN /\ idempotency_keys' = idempotency_keys \cup
                  {[key |-> req[p].key, request_hash |-> hashRequest(req[p].payload),
                    entry_id |-> NoId]}
             /\ pc' = [pc EXCEPT ![p] = "resolve"]
             /\ UNCHANGED <<req, res>>
        ELSE LET r == CHOOSE x \in existingRecord : TRUE
             IN /\ IF r.request_hash = hashRequest(req[p].payload)
                   THEN /\ pc' = [pc EXCEPT ![p] = "dup"]
                        /\ req' = [req EXCEPT ![p].entry_id = r.entry_id]
                        /\ UNCHANGED res
                   ELSE Finish(p, Throw("ConflictError", "already used with different request data"))
                /\ UNCHANGED idempotency_keys
  /\ UNCHANGED <<accounts, journal_entries, journal_lines, tx, origin, TZ, money, limiter, auth, pool>>

\* variant: a matching hash is reported valid without the entry id
validateRequest_NoEntryId(p) ==
  /\ pc[p] = "idem"
  /\ LET existingRecord == findByKey(req[p].key)
     IN IF existingRecord = {}
        THEN /\ pc' = [pc EXCEPT ![p] = "resolve"]
             /\ UNCHANGED <<req, res>>
        ELSE LET r == CHOOSE x \in existingRecord : TRUE
             IN IF r.request_hash = hashRequest(req[p].payload)
                THEN /\ pc' = [pc EXCEPT ![p] = "resolve"]
                     /\ UNCHANGED <<req, res>>
                ELSE Finish(p, Throw("ConflictError", "already used with different request data"))
  /\ UNCHANGED <<dbvars, tx, origin, TZ, money, limiter, auth, pool>>

\* IdempotencyRepository.validateRequest
validateRequest(p) ==
  /\ pc[p] = "idem"
  /\ LET existingRecord == findByKey(req[p].key)
     IN IF existingRecord = {}
        THEN /\ pc' = [pc EXCEPT ![p] = "resolve"]
             /\ UNCHANGED <<req, res>>
        ELSE LET r == CHOOSE x \in existingRecord : TRUE
             IN IF r.request_hash = hashRequest(req[p].payload)
                THEN /\ pc' = [pc EXCEPT ![p] = "dup"]
                     /\ req' = [req EXCEPT ![p].entry_id = r.entry_id]
                     /\ UNCHANGED res
                ELSE Finish(p, Throw("ConflictError", "already used with different request data"))
  /\ UNCHANGED <<dbvars, tx, origin, TZ, money, limiter, auth, pool>>

\* the duplicate branch: journalRepository.findById(idempotencyCheck.entryId)
returnExisting(p) ==
  /\ pc[p] = "dup"
  /\ IF findById(req[p].entry_id) # {}
     THEN Finish(p, Return("existing entry", req[p].entry_id))
     ELSE /\ pc' = [pc EXCEPT ![p] = "resolve"]
          /\ UNCHANGED <<req, res>>
  /\ UNCHANGED <<dbvars, tx, origin, TZ, money, limiter, auth, pool>>

\* the checks that follow the last read: validateDoubleEntryRules, then on to create
AfterReads(p) ==
  IF validateDoubleEntryRules(req[p].payload) # ""
  THEN Finish(p, Throw("ValidationError", validateDoubleEntryRules(req[p].payload)))
  ELSE /\ pc' = [pc EXCEPT ![p] = "begin"]
       /\ UNCHANGED <<req, res>>

\* [...new Set(accountCodes)]: the codes in order of first appearance
RECURSIVE uniqueCodes(_)
uniqueCodes(accountCodes) ==
  IF accountCodes = <<>> THEN <<>>
  ELSE LET rest == uniqueCodes(SubSeq(accountCodes, 1, Len(accountCodes) - 1))
           last == accountCodes[Len(accountCodes)]
       IN IF \E i \in DOMAIN rest : rest[i] = last THEN rest ELSE Append(rest, last)

\* `Accounts not found: ${missingCodes.join(', ')}` for the lines of candidate d
AccountsNotFoundMessage(d) ==
  LET accountCodes == [i \in DOMAIN d.lines |-> d.lines[i].account_code]
      hasNoAccount(code) == findByCode(code) = {}
  IN "Accounts not found: " \o JoinMessages(SelectSeq(uniqueCodes(accountCodes), hasNoAccount))

\* AccountRepository.getAccountsByCodesWithValidation: SELECT * FROM accounts WHERE code IN (codes)
getAccountsByCodesWithValidation(codes) == {a \in accounts : a.code \in codes}

\* AccountService.validateAccountsExist
validateAccountsExist(p) ==
  /\ pc[p] = "resolve"
  /\ LET accountCodes == {req[p].payload.lines[i].account_code : i \in DOMAIN req[p].payload.lines}
     IN IF missingCodes(accountCodes) # {}
        THEN Finish(p, Throw("NotFoundError", AccountsNotFoundMessage(req[p].payload)))
        ELSE IF req[p].payload.reverses_entry_id # NoId
        THEN /\ pc' = [pc EXCEPT ![p] = "reversed"]
             /\ UNCHANGED <<req, res>>
        ELSE AfterReads(p)
  /\ UNCHANGED <<dbvars, tx, origin, TZ, money, limiter, auth, pool>>

\* variant: an entry that already has a reversal, or is one, cannot be reversed
validateReversedEntry_OnlyOnce(p) ==
  /\ pc[p] = "reversed"
  /\ IF \/ findById(req[p].payload.reverses_entry_id) = {}
        \/ \E e \in journal_entries : e.reverses_entry_id = req[p].payload.reverses_entry_id
        \/ \E e \in findById(req[p].payload.reverses_entry_id) : e.reverses_entry_id # NoId
     THEN Finish(p, Throw("ValidationError", "Reversed entry not found"))
     ELSE AfterReads(p)
  /\ UNCHANGED <<dbvars, tx, origin, TZ, money, limiter, auth, pool>>

\* the reversed entry must exist: journalRepository.findById(reverses_entry_id)
validateReversedEntry(p) ==
  /\ pc[p] = "reversed"
  /\ IF findById(req[p].payload.reverses_entry_id) = {}
     THEN Finish(p, Throw("ValidationError", "Reversed entry not found"))
     ELSE AfterReads(p)
  /\ UNCHANGED <<dbvars, tx, origin, TZ, money, limiter, auth, pool>>

-----------------------------------------------------------------------------
(* JournalRepository.create inside Database.transaction *)

\* uuidv4(): an id no row has
NewEntryId == CHOOSE id \in 1..(Cardinality(EntriesInUse) + 1) : \A e \in EntriesInUse : e.id # id

\* variant: the clock does not advance between transactions
CurrentTimestamp_Frozen == MaxOf({e.posted_at : e \in EntriesInUse} \cup {1})

\* CURRENT_TIMESTAMP of a transaction that begins now: later than every one begun before
CurrentTimestamp == MaxOf({e.posted_at : e \in EntriesInUse}) + 1

\* the row of INSERT INTO journal_lines for input line i
\* variant: the debit amount is stored without Money.toCents
JournalLineRow_DebitUnconverted(entryId, account, lineData, i) ==
  [entry_id |-> entryId, account_id |-> account.id,
   debit_cents |-> lineData.debit,
   credit_cents |-> Money_toCents(lineData.credit),
   line_index |-> i]

\* variant: the lines are numbered from one
JournalLineRow_IndexFromOne(entryId, account, lineData, i) ==
  [entry_id |-> entryId, account_id |-> account.id,
   debit_cents |-> Money_toCents(lineData.debit),
   credit_cents |-> Money_toCents(lineData.credit),
   line_index |-> i + 1]

JournalLineRow(entryId, account, lineData, i) ==
  [entry_id |-> entryId, account_id |-> account.id,
   debit_cents |-> Money_toCents(lineData.debit),
   credit_cents |-> Money_toCents(lineData.credit),
   line_index |-> i]

\* migration 003: CHECK (debit_cents >= 0), CHECK (credit_cents >= 0), check_debit_or_credit
journal_lines_check(row) ==
  /\ row.debit_cents >= 0
  /\ row.credit_cents >= 0
  /\ \/ row.debit_cents > 0 /\ row.credit_cents = 0
     \/ row.debit_cents = 0 /\ row.credit_cents > 0

\* variant: no ROLLBACK, the rows written so far stay
Rollback_KeepsRows(p) ==
  /\ journal_entries' = journal_entries \cup tx[p].entry
  /\ journal_lines' = journal_lines \cup tx[p].lines
  /\ tx' = [tx EXCEPT ![p] = NoTx]
  /\ Finish(p, Throw("Error", "query failed"))
  /\ UNCHANGED <<accounts, idempotency_keys, origin, TZ, money, limiter, auth, pool>>

\* ROLLBACK and rethrow: the rows of the open transaction are dropped
Rollback(p) ==
  /\ tx' = [tx EXCEPT ![p] = NoTx]
  /\ Finish(p, Throw("Error", "query failed"))
  /\ UNCHANGED <<dbvars, origin, TZ, money, limiter, auth, pool>>

\* BEGIN; INSERT INTO journal_entries
insertEntry(p) ==
  /\ pc[p] = "begin"
  /\ CurrentTimestamp <= MaxTimestamp
  /\ LET d == req[p].payload
     IN IF d.reverses_entry_id # NoId /\ findById(d.reverses_entry_id) = {}
        THEN Rollback(p)
        ELSE /\ tx' = [tx EXCEPT ![p] =
                  [open |-> TRUE,
                   entry |-> {[id |-> NewEntryId, date |-> d.date, narration |-> d.narration,
                               reverses_entry_id |-> d.reverses_entry_id,
                               posted_at |-> CurrentTimestamp]},
                   lines |-> {}]]
             /\ pc' = [pc EXCEPT ![p] = "lines"]
             /\ UNCHANGED <<dbvars, req, res, origin, TZ, money, limiter, auth, pool>>

\* variant: the amount of a line is stored on both sides and the table has no constraint
insertLine_BothSides(p) ==
  /\ pc[p] = "lines"
  /\ Cardinality(tx[p].lines) < Len(req[p].payload.lines)
  /\ LET i == Cardinality(tx[p].lines)
         lineData == req[p].payload.lines[i + 1]
         found == findByCode(lineData.account_code)
         entryId == (CHOOSE e \in tx[p].entry : TRUE).id
     IN IF found = {}
        THEN Rollback(p)
        ELSE LET row == JournalLineRow(entryId, CHOOSE a \in found : TRUE, lineData, i)
             IN /\ tx' = [tx EXCEPT ![p].lines = @ \cup
                            {[row EXCEPT !.debit_cents = row.debit_cents + row.credit_cents,
                                         !.credit_cents = row.debit_cents + row.credit_cents]}]
                /\ UNCHANGED <<dbvars, pc, req, res, origin, TZ, money, limiter, auth, pool>>

\* variant: each line insert is visible at once, outside the transaction
insertLine_Autocommit(p) ==
  /\ pc[p] = "lines"
  /\ Cardinality(tx[p].lines) < Len(req[p].payload.lines)
  /\ LET i == Cardinality(tx[p].lines)
         lineData == req[p].payload.lines[i + 1]
         found == findByCode(lineData.account_code)
         entryId == (CHOOSE e \in tx[p].entry : TRUE).id
     IN IF found = {}
        THEN Rollback(p)
        ELSE LET row == JournalLineRow(entryId, CHOOSE a \in found : TRUE, lineData, i)
             IN IF ~journal_lines_check(row)
                THEN Rollback(p)
                ELSE /\ tx' = [tx EXCEPT ![p].lines = @ \cup {row}]
                     /\ journal_lines' = journal_lines \cup {row}
                     /\ UNCHANGED <<accounts, journal_entries, idempotency_keys,
                                    pc, req, res, origin, TZ, money, limiter, auth, pool>>

\* one iteration of the loop over entryData.lines: INSERT INTO journal_lines
insertLine(p) ==
  /\ pc[p] = "lines"
  /\ Cardinality(tx[p].lines) < Len(req[p].payload.lines)
  /\ LET i == Cardinality(tx[p].lines)
         lineData == req[p].payload.lines[i + 1]
         found == findByCode(lineData.account_code)
         entryId == (CHOOSE e \in tx[p].entry : TRUE).id
     IN IF found = {}
        THEN Rollback(p)
        ELSE LET row == JournalLineRow(entryId, CHOOSE a \in found : TRUE, lineData, i)
             IN IF ~journal_lines_check(row)
                THEN Rollback(p)
                ELSE /\ tx' = [tx EXCEPT ![p].lines = @ \cup {row}]
                     /\ UNCHANGED <<dbvars, pc, req, res, origin, TZ, money, limiter, auth, pool>>

\* variant: committing a reversal also rewrites the reversed entry to point at it
commit_MarksReversed(p) ==
  /\ pc[p] = "lines"
  /\ Cardinality(tx[p].lines) = Len(req[p].payload.lines)
  /\ LET entry == CHOOSE e \in tx[p].entry : TRUE
         reversed == findById(entry.reverses_entry_id)
     IN /\ journal_entries' = (journal_entries \ reversed)
                                \cup {[e EXCEPT !.reverses_entry_id = entry.id] : e \in reversed}
                                \cup tx[p].entry
        /\ journal_lines' = journal_lines \cup tx[p].lines
        /\ origin' = origin @@ (entry.id :> [key |-> req[p].key, n |-> Len(req[p].payload.lines)])
        /\ tx' = [tx EXCEPT ![p] = NoTx]
        /\ IF req[p].key # NoKey
           THEN /\ pc' = [pc EXCEPT ![p] = "record"]
                /\ req' = [req EXCEPT ![p].entry_id = entry.id]
                /\ UNCHANGED res
           ELSE Finish(p, Return("created entry", entry.id))
  /\ UNCHANGED <<accounts, idempotency_keys, TZ, money, limiter, auth, pool>>

\* COMMIT: the rows of the transaction become visible together
commit(p) ==
  /\ pc[p] = "lines"
  /\ Cardinality(tx[p].lines) = Len(req[p].payload.lines)
  /\ LET entry == CHOOSE e \in tx[p].entry : TRUE
     IN /\ journal_entries' = journal_entries \cup tx[p].entry
        /\ journal_lines' = journal_lines \cup tx[p].lines
        /\ origin' = origin @@ (entry.id :> [key |-> req[p].key, n |-> Len(req[p].payload.lines)])
        /\ tx' = [tx EXCEPT ![p] = NoTx]
        /\ IF req[p].key # NoKey
           THEN /\ pc' = [pc EXCEPT ![p] = "record"]
                /\ req' = [req EXCEPT ![p].entry_id = entry.id]
                /\ UNCHANGED res
           ELSE Finish(p, Return("created entry", entry.id))
  /\ UNCHANGED <<accounts, idempotency_keys, TZ, money, limiter, auth, pool>>

\* a statement of the transaction (or COMMIT) throws: catch, ROLLBACK, rethrow
queryFails(p) ==
  /\ pc[p] = "lines"
  /\ Rollback(p)

\* IdempotencyService.recordRequest -> IdempotencyRepository.create
recordRequest(p) ==
  /\ pc[p] = "record"
  /\ IF findByKey(req[p].key) # {}
     THEN /\ Finish(p, Throw("ConflictError", "Idempotency key already exists"))
          /\ UNCHANGED idempotency_keys
     ELSE /\ idempotency_keys' = idempotency_keys \cup
               {[key |-> req[p].key, request_hash |-> hashRequest(req[p].payload),
                 entry_id |-> req[p].entry_id]}
          /\ Finish(p, Return("created entry", req[p].entry_id))
  /\ UNCHANGED <<accounts, journal_entries, journal_lines, tx, origin, TZ, money, limiter, auth, pool>>

\* the process dies: open transactions are rolled back by the database, handlers are gone
crash ==
  /\ \E p \in Procs : pc[p] # "idle"
  /\ pc' = [p \in Procs |-> "idle"]
  /\ req' = [p \in Procs |-> NoReq]
  /\ tx' = [p \in Procs |-> NoTx]
  /\ res' = [p \in Procs |-> IF pc[p] = "idle" THEN res[p] ELSE [NoRes EXCEPT !.status = "crashed"]]
  /\ UNCHANGED <<dbvars, origin, TZ, money, limiter, auth, pool>>

-----------------------------------------------------------------------------
(* JournalService.createReversalEntry *)

\* variant: the reversal lines keep the sides of the original lines
reversalEntryData_NoSwap(originalEntryId, narration, reversalDate) ==
  LET originalLines == OrderByLineIndex(LinesOf(originalEntryId))
  IN [date |-> reversalDate, narration |-> narration,
      lines |-> [i \in DOMAIN originalLines |->
                   [account_code |-> originalLines[i].account_code,
                    debit  |-> Money_fromCents(originalLines[i].debit_cents),
                    credit |-> Money_fromCents(originalLines[i].credit_cents)]],
      reverses_entry_id |-> originalEntryId,
      keys |-> SchemaKeys]

\* the candidate built from the original entry: debits and credits flipped
reversalEntryData(originalEntryId, narration, reversalDate) ==
  LET originalLines == OrderByLineIndex(LinesOf(originalEntryId))
  IN [date |-> reversalDate, narration |-> narration,
      lines |-> [i \in DOMAIN originalLines |->
                   [account_code |-> originalLines[i].account_code,
                    debit  |-> Money_fromCents(originalLines[i].credit_cents),
                    credit |-> Money_fromCents(originalLines[i].debit_cents)]],
      reverses_entry_id |-> originalEntryId,
      keys |-> SchemaKeys]

createReversalEntry(p, originalEntryId, narration, reversalDate, idempotencyKey) ==
  /\ pc[p] = "idle"
  /\ FreeSlot(idempotencyKey)
  /\ IF findById(originalEntryId) = {}
     THEN Finish(p, Throw("NotFoundError", "Journal entry not found"))
     ELSE EnterCreate(p, reversalEntryData(originalEntryId, narration, reversalDate),
                      idempotencyKey)
  /\ UNCHANGED <<dbvars, tx, origin, TZ, money, limiter, auth, pool>>

-----------------------------------------------------------------------------
(* BalanceService: summary by type and accounting equation *)

\* Math.abs
Abs(n) == IF n < 0 THEN 0 - n ELSE n

\* BalanceRepository.getAllAccountBalances: one row per account the WHERE clause keeps
getAllAccountBalances(asOfDate) ==
  LET kept(b) == {r \in LeftJoin(b) : asOfDate # NoDate => (r.date_null \/ r.date <= asOfDate)}
  IN {[account_code |-> a.code, account_type |-> a.type,
       debits |-> SumField(kept(a), "debit_cents"),
       credits |-> SumField(kept(a), "credit_cents"),
       balance |-> calculateDisplayBalance(a.type, SumField(kept(a), "debit_cents"),
                                           SumField(kept(a), "credit_cents"))] :
         a \in {b \in accounts : kept(b) # {}}}

\* BalanceService.getBalanceSummaryByType
getBalanceSummaryByType(asOfDate) ==
  LET balances == getAllAccountBalances(asOfDate)
      plain(type) == SumField({b \in balances : b.account_type = type}, "balance")
      positive(type) == SumField({[b EXCEPT !.balance = Abs(b.balance)] :
                                    b \in {x \in balances : x.account_type = type}}, "balance")
  IN [assets |-> plain("Asset"),
      liabilities |-> positive("Liability"),
      equity |-> positive("Equity"),
      revenue |-> positive("Revenue"),
      expenses |-> plain("Expense"),
      netIncome |-> positive("Revenue") - plain("Expense")]

\* BalanceService.validateAccountingEquation
validateAccountingEquation(asOfDate) ==
  LET summary == getBalanceSummaryByType(asOfDate)
      leftSide == summary.assets
      rightSide == summary.liabilities + summary.equity
      difference == leftSide - rightSide
  IN [isValid |-> Abs(difference) < 1,
      assets |-> summary.assets,
      liabilities |-> summary.liabilities,
      equity |-> summary.equity,
      difference |-> difference]

-----------------------------------------------------------------------------
(* Lookups *)

\* AccountService.getAccount: what the call returns or throws
AccountService_getAccount(code) ==
  IF findByCode(code) = {}
  THEN Throw("ValidationError", "Account not found")
  ELSE Return("account", NoId)

\* JournalService.getJournalEntry: what the call returns or throws
JournalService_getJournalEntry(id) ==
  IF findById(id) = {}
  THEN Throw("NotFoundError", "Journal entry not found")
  ELSE Return("journal entry", id)

-----------------------------------------------------------------------------
(* BalanceService *)

\* BalanceService.getAccountBalance: what the call returns or throws
BalanceService_getAccountBalance(accountCode, asOfDate) ==
  IF findByCode(accountCode) = {}
  THEN [status |-> "ValidationError", msg |-> "Account not found",
        debits |-> 0, credits |-> 0, balance |-> 0]
  ELSE LET rows == getAccountBalance_rows(accountCode, asOfDate)
       IN IF rows = {}
          THEN [status |-> "NotFoundError", msg |-> "No balance data found",
                debits |-> 0, credits |-> 0, balance |-> 0]
          ELSE LET row == CHOOSE r \in rows : TRUE
               IN [status |-> "ok", msg |-> "balance",
                   debits |-> row.debits, credits |-> row.credits,
                   balance |-> calculateDisplayBalance(row.account_type, row.debits, row.credits)]

\* BalanceService.getTrialBalance: what the call returns or throws
BalanceService_getTrialBalance(from, to) ==
  IF to < from
  THEN [status |-> "ValidationError", msg |-> "to date must be greater than or equal to from date",
        debits |-> 0, credits |-> 0]
  ELSE LET totals == getTrialBalance_totals(from, to)
       IN IF totals.debits # totals.credits
          THEN [status |-> "Error", msg |-> "Trial balance does not balance",
                debits |-> totals.debits, credits |-> totals.credits]
          ELSE [status |-> "ok", msg |-> "trial balance",
                debits |-> totals.debits, credits |-> totals.credits]

getAccountBalance(p, accountCode, asOfDate) ==
  /\ pc[p] = "idle"
  /\ LET out == BalanceService_getAccountBalance(accountCode, asOfDate)
     IN Finish(p, [NoRes EXCEPT !.status = out.status, !.msg = out.msg])
  /\ UNCHANGED <<dbvars, tx, origin, TZ, money, limiter, auth, pool>>

getTrialBalance(p, from, to) ==
  /\ pc[p] = "idle"
  /\ LET out == BalanceService_getTrialBalance(from, to)
     IN Finish(p, [NoRes EXCEPT !.status = out.status, !.msg = out.msg])
  /\ UNCHANGED <<dbvars, tx, origin, TZ, money, limiter, auth, pool>>

-----------------------------------------------------------------------------
(* Specifications *)

\* candidates whose lines pass validateInput, and one candidate per shape of lines that
\* do not; the rule on the date is decided when the call is made
AcceptedPayloads == {d \in Payloads : LinesMessages(d.lines) = <<>>}

RejectedPayloads ==
  {d \in Payloads : /\ LinesMessages(d.lines) # <<>>
                    /\ d.reverses_entry_id = NoId
                    /\ d.lines \in SampleLineSeqs \cup
                         {<<Dr("1001", 10), Cr("3001", 0)>>, <<Dr("1001", 10), [Cr("3001", 10) EXCEPT !.debit = 10]>>}}

\* one client, every candidate
Next ==
  \/ \E a \in AccountInputs : createAccount("p1", a)
  \/ AccountRepository_create("p1")
  \/ \E d \in AcceptedPayloads \cup RejectedPayloads, k \in {NoKey} \cup Keys :
        createJournalEntry("p1", d, k)
  \/ validateRequest("p1")
  \/ returnExisting("p1")
  \/ validateAccountsExist("p1")
  \/ validateReversedEntry("p1")
  \/ insertEntry("p1")
  \/ insertLine("p1")
  \/ commit("p1")
  \/ queryFails("p1")
  \/ recordRequest("p1")
  \/ crash
  \/ \E id \in EntryIds, n \in Narrations, d \in Dates, k \in {NoKey} \cup Keys :
        createReversalEntry("p1", id, n, d, k)
  \/ \E c \in Codes, d \in {NoDate} \cup Dates : getAccountBalance("p1", c, d)
  \/ \E f \in Dates, t \in Dates : getTrialBalance("p1", f, t)

Spec == Init /\ [][Next]_vars

\* two concurrent clients, candidates on one narration that reverse nothing
ConcPayloads ==
  {d \in AcceptedPayloads : /\ d.narration = "n1"
                            /\ d.date <= Today
                            /\ d.reverses_entry_id = NoId
                            /\ d.lines = <<Dr("1001", 10), Cr("3001", 10)>>}

NextConc ==
  \/ \E p \in Procs, a \in AccountInputs : createAccount(p, a)
  \/ \E p \in Procs : AccountRepository_create(p)
  \/ \E p \in Procs, d \in ConcPayloads, k \in {NoKey} \cup Keys : createJournalEntry(p, d, k)
  \/ \E p \in Procs : validateRequest(p)
  \/ \E p \in Procs : returnExisting(p)
  \/ \E p \in Procs : validateAccountsExist(p)
  \/ \E p \in Procs : insertEntry(p)
  \/ \E p \in Procs : insertLine(p)
  \/ \E p \in Procs : commit(p)
  \/ \E p \in Procs : queryFails(p)
  \/ \E p \in Procs : recordRequest(p)
  \/ \E p \in Procs, c \in Codes : getAccountBalance(p, c, NoDate)
  \/ \E p \in Procs, t \in Dates : getTrialBalance(p, 1, t)

SpecConc == Init /\ [][NextConc]_vars

-----------------------------------------------------------------------------
(* Vocabulary of the properties *)

EntryLines(id) == {l \in journal_lines : l.entry_id = id}

\* a validated request as the rows it is persisted as
PayloadAsPosted(d) ==
  [date |-> d.date, narration |-> d.narration, reverses_entry_id |-> d.reverses_entry_id,
   lines |-> [i \in DOMAIN d.lines |->
               [account_code |-> d.lines[i].account_code,
                debit_cents |-> Money_toCents(d.lines[i].debit),
                credit_cents |-> Money_toCents(d.lines[i].credit)]]]

\* a persisted entry in the same shape
EntryAsPosted(id) ==
  LET e == CHOOSE x \in journal_entries : x.id = id
      ls == OrderByLineIndex(LinesOf(id))
  IN [date |-> e.date, narration |-> e.narration, reverses_entry_id |-> e.reverses_entry_id,
      lines |-> [i \in DOMAIN ls |->
                  [account_code |-> ls[i].account_code,
                   debit_cents |-> ls[i].debit_cents,
                   credit_cents |-> ls[i].credit_cents]]]

\* handler p is inside a create call whose key has a record
KeyRecorded(p) == pc[p] # "idle" /\ req[p].key # NoKey /\ findByKey(req[p].key) # {}

RecordOf(p) == CHOOSE r \in findByKey(req[p].key) : TRUE

\* ... and its payload is the one the recorded entry was created from
Replay(p) ==
  /\ KeyRecorded(p)
  /\ findById(RecordOf(p).entry_id) # {}
  /\ PayloadAsPosted(req[p].payload) = EntryAsPosted(RecordOf(p).entry_id)

\* a validated request that passes every later check of createJournalEntry
ValidPayload(d) ==
  /\ missingCodes({d.lines[i].account_code : i \in DOMAIN d.lines}) = {}
  /\ d.reverses_entry_id # NoId => findById(d.reverses_entry_id) # {}
  /\ validateDoubleEntryRules(d) = ""

\* ... or is another valid payload
Reuse(p) ==
  /\ KeyRecorded(p)
  /\ findById(RecordOf(p).entry_id) # {}
  /\ ValidPayload(req[p].payload)
  /\ PayloadAsPosted(req[p].payload) # EntryAsPosted(RecordOf(p).entry_id)

TablesUnchanged ==
  /\ journal_entries' = journal_entries
  /\ journal_lines' = journal_lines
  /\ idempotency_keys' = idempotency_keys

-----------------------------------------------------------------------------
(* C1: every persisted journal entry, ordinary or reversal, has equal debit and
   credit totals over its lines, and the total is strictly positive. *)
C1_EntriesBalanced ==
  \A e \in journal_entries :
    /\ SumField(EntryLines(e.id), "debit_cents") = SumField(EntryLines(e.id), "credit_cents")
    /\ SumField(EntryLines(e.id), "debit_cents") > 0

\* an ordinary entry and a reversal of it are persisted, and a candidate was rejected since
C1_Witness ==
  /\ \E e \in journal_entries, r \in journal_entries :
        e.reverses_entry_id = NoId /\ r.reverses_entry_id = e.id
  /\ res["p1"].status = "ValidationError"

(* C2: a call with key K and the payload of the entry already recorded for K
   returns that entry's id and changes neither entries, lines nor records. *)
C2_SequentialReplay ==
  [][\A p \in Procs :
        (Replay(p) /\ pc[p] \in {"idem", "dup"}) =>
          /\ TablesUnchanged
          /\ \/ pc'[p] \in {"idem", "dup"}
             \/ pc'[p] = "idle" /\ res'[p].status = "crashed"
             \/ /\ pc'[p] = "idle"
                /\ res'[p].status = "ok"
                /\ res'[p].entry_id = RecordOf(p).entry_id]_vars

\* a replay has returned the recorded entry and the ledger still holds one entry
C2_Witness ==
  /\ res["p1"].status = "ok"
  /\ res["p1"].msg = "existing entry"
  /\ Cardinality(journal_entries) = 1
  /\ \E r \in idempotency_keys : r.entry_id = res["p1"].entry_id

(* C3: a call with key K whose payload differs in any field from the one
   recorded for K ends in ConflictError; it creates nothing and does not
   return the recorded entry. *)
C3_KeyReuseConflicts ==
  [][\A p \in Procs :
        (Reuse(p) /\ pc[p] = "idem") =>
          /\ TablesUnchanged
          /\ \/ pc'[p] = "idem"
             \/ pc'[p] = "idle" /\ res'[p].status \in {"ConflictError", "crashed"}]_vars

(* C4: calls with the same key and identical payloads that run concurrently
   leave exactly one entry for the key, and none of them fails: the call whose
   record insert hits the uniqueness constraint returns the recorded entry. *)
C4_ConcurrentIdentical ==
  (\A p \in Procs : pc[p] = "idle") =>
  /\ \A e \in journal_entries, f \in journal_entries :
        (/\ origin[e.id].key # NoKey
         /\ origin[e.id].key = origin[f.id].key
         /\ EntryAsPosted(e.id).lines = EntryAsPosted(f.id).lines
         /\ e.date = f.date /\ e.narration = f.narration) => e = f
  /\ \A p \in Procs : res[p].msg # "Idempotency key already exists"

(* C5: the entry created for a call with key K and the record that maps K to
   it exist together in every committed state. *)
C5_EntryAndRecordTogether ==
  /\ \A e \in journal_entries :
        origin[e.id].key # NoKey =>
          \E r \in idempotency_keys : r.key = origin[e.id].key /\ r.entry_id = e.id
  /\ \A r \in idempotency_keys : findById(r.entry_id) # {}

(* C6: in every committed state an entry exists exactly when all of its lines,
   one per input line, exist; a failing insert rolls the transaction back and
   persists neither the entry nor any line. *)
C6_EntryIffAllLines ==
  /\ \A e \in journal_entries :
        /\ e.id \in DOMAIN origin
        /\ {l.line_index : l \in EntryLines(e.id)} = 0..(origin[e.id].n - 1)
        /\ Cardinality(EntryLines(e.id)) = origin[e.id].n
  /\ \A l \in journal_lines : findById(l.entry_id) # {}
  /\ \A p \in Procs :
        (res[p].msg = "query failed") =>
          \A id \in EntryIds : findById(id) = {} => EntryLines(id) = {}

\* a transaction was rolled back after an earlier one had committed
C6_Witness ==
  /\ res["p1"].msg = "query failed"
  /\ journal_entries # {}
  /\ Cardinality(journal_lines) = 2 * Cardinality(journal_entries)

(* C7: a persisted entry and its lines stay exactly as they are in every later
   state: no step changes or removes an entry row or a line row, or gives an
   existing entry another line. *)
C7_EntriesImmutable ==
  [][/\ journal_entries \subseteq journal_entries'
     /\ journal_lines \subseteq journal_lines'
     /\ \A e \in journal_entries :
          {l \in journal_lines' : l.entry_id = e.id} = EntryLines(e.id)]_vars

\* an entry and a committed reversal of it
C7_Witness ==
  \E e \in journal_entries, r \in journal_entries :
    /\ r.reverses_entry_id = e.id
    /\ EntryLines(r.id) # {}
    /\ r.posted_at > e.posted_at

(* C8: for every date range from <= to the trial balance has equal debit and
   credit totals, so the self-check of the service never throws. *)
C8_TrialBalanceBalances ==
  \A f \in Dates, t \in Dates :
    f <= t =>
      /\ getTrialBalance_totals(f, t).debits = getTrialBalance_totals(f, t).credits
      /\ BalanceService_getTrialBalance(f, t).status = "ok"

\* a trial balance was returned over entries on two different dates
C8_Witness ==
  /\ res["p1"].msg = "trial balance"
  /\ \E e \in journal_entries, f \in journal_entries : e.date < f.date
  /\ getTrialBalance_totals(1, 1).debits > 0
  /\ getTrialBalance_totals(1, 2).debits > getTrialBalance_totals(1, 1).debits

(* C9: a read that runs while an entry is being written sees none or all of the
   entry's lines: at every point the debits and the credits visible to a reader
   sum to the same amount, ledger-wide and in every trial balance. *)
C9_NoHalfWrittenEntry ==
  /\ SumField(journal_lines, "debit_cents") = SumField(journal_lines, "credit_cents")
  /\ \A e \in journal_entries : Cardinality(EntryLines(e.id)) = origin[e.id].n
  /\ \A l \in journal_lines : findById(l.entry_id) # {}
  /\ \A t \in Dates : BalanceService_getTrialBalance(1, t).status = "ok"
  /\ \A p \in Procs : res[p].msg # "Trial balance does not balance"

\* one handler has written one of two lines, the other has just read a non-empty ledger
C9_Witness ==
  \E p \in Procs, q \in Procs :
    /\ p # q
    /\ tx[p].open /\ Cardinality(tx[p].lines) = 1
    /\ res[q].msg = "trial balance"
    /\ journal_entries # {}
    /\ getTrialBalance_totals(1, MaxDate).debits > 0

\* the sums the balance of an account is specified to be
BalanceDebits(a, asOfDate) ==
  SumField({l \in journal_lines : /\ l.account_id = a.id
                                  /\ \E e \in journal_entries :
                                       e.id = l.entry_id /\ (asOfDate = NoDate \/ e.date <= asOfDate)},
           "debit_cents")

BalanceCredits(a, asOfDate) ==
  SumField({l \in journal_lines : /\ l.account_id = a.id
                                  /\ \E e \in journal_entries :
                                       e.id = l.entry_id /\ (asOfDate = NoDate \/ e.date <= asOfDate)},
           "credit_cents")

(* C10: for every existing account and every optional as-of date,
   getAccountBalance succeeds with debits and credits summed over the account's
   lines dated on or before the as-of date (all lines without one) and
   balance = debits - credits; no qualifying line gives 0, 0, 0. *)
C10_AccountBalance ==
  \A a \in accounts, d \in {NoDate} \cup Dates :
    LET out == BalanceService_getAccountBalance(a.code, d)
    IN /\ out.status = "ok"
       /\ out.debits = BalanceDebits(a, d)
       /\ out.credits = BalanceCredits(a, d)
       /\ out.balance = out.debits - out.credits

\* the lines of account a whose entry is dated within [fromDate, toDate]
LinesInRange(a, fromDate, toDate) ==
  {l \in journal_lines : /\ l.account_id = a.id
                         /\ \E e \in journal_entries :
                              e.id = l.entry_id /\ e.date >= fromDate /\ e.date <= toDate}

(* C11: for every date range the trial balance has exactly one row for every
   existing account, also for an account without lines and for one whose lines
   are all dated outside the range (0 and 0); the row's debits and credits are
   the sums over the account's lines dated within the range. *)
C11_TrialBalanceRows ==
  \A f \in Dates, t \in Dates :
    f <= t =>
      \A a \in accounts :
        LET rows == {r \in getTrialBalance_rows(f, t) : r.account_code = a.code}
        IN /\ Cardinality(rows) = 1
           /\ \A r \in rows :
                /\ r.debits = SumField(LinesInRange(a, f, t), "debit_cents")
                /\ r.credits = SumField(LinesInRange(a, f, t), "credit_cents")

-----------------------------------------------------------------------------
(* The starter scenario: four accounts, three entries posted in order *)

StarterAccounts ==
  { [code |-> "1001", name |-> "Cash",    type |-> "Asset"],
    [code |-> "3001", name |-> "Capital", type |-> "Equity"],
    [code |-> "4001", name |-> "Sales",   type |-> "Revenue"],
    [code |-> "5001", name |-> "Rent",    type |-> "Expense"] }

\* the day 2025-01-dd on the calendar of the model, where Today is 2025-01-08
January(dd) == dd - 6

\* a whole number of currency units as a request amount
Units(n) == n * 1000

StarterEntries ==
  << [date |-> January(1), narration |-> "Seed capital", reverses_entry_id |-> NoId, keys |-> SchemaKeys,
      lines |-> <<Dr("1001", Units(100000)), Cr("3001", Units(100000))>>],
     [date |-> January(5), narration |-> "Cash sale", reverses_entry_id |-> NoId, keys |-> SchemaKeys,
      lines |-> <<Dr("1001", Units(50000)), Cr("4001", Units(50000))>>],
     [date |-> January(7), narration |-> "Office rent", reverses_entry_id |-> NoId, keys |-> SchemaKeys,
      lines |-> <<Dr("5001", Units(20000)), Cr("1001", Units(20000))>>] >>

\* BalanceController.getAccountBalance: the response, amounts converted for display
BalanceController_getAccountBalance(code, as_of) ==
  LET balance == BalanceService_getAccountBalance(code, as_of)
  IN [status |-> balance.status,
      debits |-> Money_fromCents(balance.debits),
      credits |-> Money_fromCents(balance.credits),
      balance |-> Money_fromCents(balance.balance)]

\* BalanceController.getTrialBalance: the totals of the response
BalanceController_getTrialBalance(from, to) ==
  LET trialBalance == BalanceService_getTrialBalance(from, to)
  IN [status |-> trialBalance.status,
      debits |-> Money_fromCents(trialBalance.debits),
      credits |-> Money_fromCents(trialBalance.credits),
      is_balanced |-> trialBalance.debits = trialBalance.credits]

\* the k-th posting of the scenario, made once the k - 1 before it are persisted
postStarter(p, k) ==
  /\ pc[p] = "idle"
  /\ Cardinality(journal_entries) = k - 1
  /\ EnterCreate(p, StarterEntries[k], NoKey)
  /\ UNCHANGED <<dbvars, tx, origin, TZ, money, limiter, auth, pool>>

NextStarter ==
  \/ \E a \in StarterAccounts : createAccount("p1", a)
  \/ AccountRepository_create("p1")
  \/ \E k \in DOMAIN StarterEntries : postStarter("p1", k)
  \/ validateAccountsExist("p1")
  \/ insertEntry("p1")
  \/ insertLine("p1")
  \/ commit("p1")
  \/ \E a \in StarterAccounts, d \in {NoDate, January(5)} : getAccountBalance("p1", a.code, d)
  \/ getTrialBalance("p1", January(1), January(31))

SpecStarter == Init /\ [][NextStarter]_vars

\* the three postings are persisted
StarterPosted ==
  /\ {a.code : a \in accounts} = {a.code : a \in StarterAccounts}
  /\ {e.date : e \in journal_entries} = {January(1), January(5), January(7)}

(* C12: after the starter scenario Cash is 130000 (debits 150000, credits 20000),
   Sales -50000, Capital -100000, Rent 20000, the January trial balance totals
   are 170000 and 170000, and Cash as of 2025-01-05 is 150000. *)
C12_StarterScenario ==
  StarterPosted =>
    /\ BalanceController_getAccountBalance("1001", NoDate).status = "ok"
    /\ BalanceController_getAccountBalance("1001", NoDate).debits = Units(150000)
    /\ BalanceController_getAccountBalance("1001", NoDate).credits = Units(20000)
    /\ BalanceController_getAccountBalance("1001", NoDate).balance = Units(130000)
    /\ BalanceController_getAccountBalance("4001", NoDate).balance = Units(0 - 50000)
    /\ BalanceController_getAccountBalance("3001", NoDate).balance = Units(0 - 100000)
    /\ BalanceController_getAccountBalance("5001", NoDate).balance = Units(20000)
    /\ BalanceController_getTrialBalance(January(1), January(31)).status = "ok"
    /\ BalanceController_getTrialBalance(January(1), January(31)).is_balanced
    /\ BalanceController_getTrialBalance(January(1), January(31)).debits = Units(170000)
    /\ BalanceController_getTrialBalance(January(1), January(31)).credits = Units(170000)
    /\ BalanceController_getAccountBalance("1001", January(5)).status = "ok"
    /\ BalanceController_getAccountBalance("1001", January(5)).balance = Units(150000)

\* the scenario is complete and a balance has been read
C12_Witness ==
  /\ StarterPosted
  /\ Cardinality(journal_lines) = 6
  /\ res["p1"].msg = "balance"

\* the errors with which createJournalEntry rejects a candidate
RejectionErrors == {"ValidationError", "NotFoundError"}

(* C13: a rejected candidate changes nothing: no step of createJournalEntry before
   the insert touches the entries, lines or idempotency records, and the step
   that rejects a candidate is one of those steps with no transaction open. *)
C13_RejectionPersistsNothing ==
  [][\A p \in Procs :
        /\ pc[p] \in {"idem", "dup", "resolve", "reversed"} => TablesUnchanged
        /\ (pc'[p] = "idle" /\ res'[p].status \in RejectionErrors) =>
              /\ TablesUnchanged
              /\ pc[p] \in {"idle", "resolve", "reversed"}
              /\ ~tx[p].open]_vars

\* a candidate naming one account twice was rejected, the ledger holding an entry
C13_Witness ==
  /\ res["p1"].msg = "appears multiple times"
  /\ journal_entries # {}
  /\ idempotency_keys = {}

(* C14: no future-dated postings: a candidate dated after the current calendar
   date does not pass validation, whatever its lines, and one dated today or
   earlier is not rejected by this rule; no persisted entry is dated after the
   date on which it was posted. *)
C14_NoFutureDatedPostings ==
  /\ \A e \in journal_entries : e.date <= Today
  /\ \A d \in AcceptedPayloads : d.date <= Today => journalEntrySchema_messages(d) = <<>>

(* C15: every persisted journal line has non-negative debit_cents and
   credit_cents, exactly one of them strictly positive and the other zero. *)
C15_OneSidedLines ==
  \A l \in journal_lines :
    /\ l.debit_cents \in Nat
    /\ l.credit_cents \in Nat
    /\ \/ l.debit_cents > 0 /\ l.credit_cents = 0
       \/ l.debit_cents = 0 /\ l.credit_cents > 0

\* lines are persisted and a candidate with a line that has neither side was rejected
C15_Witness ==
  /\ \E l \in journal_lines : l.debit_cents > 0
  /\ \E l \in journal_lines : l.credit_cents > 0
  /\ res["p1"].msg = "A line must have either a debit or credit amount"

\* an account code appears more than once in the lines of the candidate
HasRepeatedAccount(d) ==
  \E i \in DOMAIN d.lines, j \in DOMAIN d.lines :
    i # j /\ d.lines[i].account_code = d.lines[j].account_code

\* no persisted entry has two lines on one account
DistinctAccounts(lines) ==
  \A l \in lines, m \in lines :
    (l.entry_id = m.entry_id /\ l.account_id = m.account_id) => l = m

(* C16 as stated: no persisted entry has two lines on the same account, and every
   call with a candidate that repeats an account code ends with a
   ValidationError and persists nothing. *)
C16_RepeatedAccountRejected ==
  [][/\ DistinctAccounts(journal_lines')
     /\ \A p \in Procs :
          (HasRepeatedAccount(req[p].payload) /\ pc'[p] = "idle" /\ res'[p].status # "crashed") =>
             /\ res'[p].status = "ValidationError"
             /\ TablesUnchanged]_vars

(* C16 amended: no persisted entry has two lines on the same account; a candidate
   that repeats an account code, all of whose account codes exist and whose
   idempotency key, if any, is not recorded, never reaches the insert: the call
   ends with a ValidationError and persists nothing. *)
C16_RepeatedAccountRejectedByValidator ==
  [][/\ DistinctAccounts(journal_lines')
     /\ \A p \in Procs :
          (/\ HasRepeatedAccount(req[p].payload)
           /\ pc[p] \in {"idem", "resolve", "reversed"}
           /\ ~KeyRecorded(p)
           /\ missingCodes({req[p].payload.lines[i].account_code :
                              i \in DOMAIN req[p].payload.lines}) = {}) =>
             /\ TablesUnchanged
             /\ pc'[p] \in {"idem", "resolve", "reversed", "idle"}
             /\ pc'[p] = "idle" => res'[p].status \in {"ValidationError", "crashed"}]_vars

\* a candidate on existing accounts was rejected for repeating one of them
C16_Witness ==
  /\ res["p1"].status = "ValidationError"
  /\ res["p1"].msg = "appears multiple times"
  /\ Cardinality(accounts) = 2
  /\ journal_entries = {}

\* the first rule of the validator, in its specified order, that candidate d violates
\* (0 when it violates none)
FirstViolatedRule(d) ==
  LET cents(i, side) == Money_toCents(d.lines[i][side])
      n == DOMAIN d.lines
  IN IF Len(d.lines) < 2 THEN 1
     ELSE IF \E i \in n : (cents(i, "debit") # 0) = (cents(i, "credit") # 0) THEN 2
     ELSE IF HasRepeatedAccount(d) THEN 3
     ELSE IF \E i \in n : d.lines[i].debit < 0 \/ d.lines[i].credit < 0 THEN 4
     ELSE IF TotalToCents(d.lines, "debit") # TotalToCents(d.lines, "credit") THEN 5
     ELSE IF TotalToCents(d.lines, "debit") <= 0 THEN 6
     ELSE IF d.date > Today THEN 7
     ELSE IF d.reverses_entry_id # NoId /\ findById(d.reverses_entry_id) = {} THEN 8
     ELSE 0

\* the messages the code has for each rule
MessagesOfRule(rule) ==
  CASE rule = 1 -> {"At least 2 lines are required for a journal entry", "at least 2 lines"}
    [] rule = 2 -> {"A line cannot have both debit and credit amounts",
                    "A line must have either a debit or credit amount",
                    "has both debit and credit", "has zero amount"}
    [] rule = 3 -> {"appears multiple times"}
    [] rule = 4 -> {"debit must be greater than or equal to 0",
                    "credit must be greater than or equal to 0", "must be non-negative"}
    [] rule = 5 -> {"Total debits must equal total credits", "not balanced"}
    [] rule = 6 -> {"Total amount must be greater than zero", "total must be greater than zero"}
    [] rule = 7 -> {"Entry date cannot be in the future"}
    [] rule = 8 -> {"Reversed entry not found"}
    [] OTHER -> {}

(* C17: a call of createJournalEntry that fails validation fails with exactly the
   message of the first rule the candidate violates, in the order: two lines,
   one side per line, no repeated account, non-negative amounts, equal totals,
   positive total, date not in the future, reversed entry exists; never with a
   later rule's message or with several messages. *)
C17_FirstViolatedRuleMessage ==
  [][/\ \A d \in AcceptedPayloads \cup RejectedPayloads :
          (/\ createJournalEntry("p1", d, NoKey)
           /\ pc'["p1"] = "idle"
           /\ res'["p1"].status = "ValidationError") =>
             res'["p1"].msg \in MessagesOfRule(FirstViolatedRule(d))
     /\ \A p \in Procs :
          (/\ pc[p] \in {"resolve", "reversed"}
           /\ pc'[p] = "idle"
           /\ res'[p].status = "ValidationError") =>
             res'[p].msg \in MessagesOfRule(FirstViolatedRule(req[p].payload))]_vars


-----------------------------------------------------------------------------
(* Chains of reversals: originals that reverse nothing are posted through
   createJournalEntry, every entry that reverses another one is made by the
   reversal operation, and the ledger holds up to MaxChain entries. *)

MaxChain == 3

ReversalOriginals ==
  { [date |-> 1, narration |-> "n1", lines |-> ls, reverses_entry_id |-> NoId, keys |-> SchemaKeys] :
      ls \in { <<Dr("1001", 10), Cr("3001", 10)>>,
               <<Cr("3001", 20), Dr("1001", 20)>>,
               <<Dr("1001", 5), Cr("3001", 14)>> } }

\* JournalService.createReversalEntry without a key, on a ledger of up to MaxChain entries
reverseEntry(p, originalEntryId, narration, reversalDate) ==
  /\ pc[p] = "idle"
  /\ Cardinality(journal_entries) < MaxChain
  /\ IF findById(originalEntryId) = {}
     THEN Finish(p, Throw("NotFoundError", "Journal entry not found"))
     ELSE EnterCreate(p, reversalEntryData(originalEntryId, narration, reversalDate), NoKey)
  /\ UNCHANGED <<dbvars, tx, origin, TZ, money, limiter, auth, pool>>

NextReversal ==
  \/ \E a \in AccountInputs : createAccount("p1", a)
  \/ AccountRepository_create("p1")
  \/ \E d \in ReversalOriginals : createJournalEntry("p1", d, NoKey)
  \/ \E id \in 1..MaxChain, n \in Narrations, d \in Dates : reverseEntry("p1", id, n, d)
  \/ validateAccountsExist("p1")
  \/ validateReversedEntry("p1")
  \/ insertEntry("p1")
  \/ insertLine("p1")
  \/ commit("p1")

SpecReversal == Init /\ [][NextReversal]_vars

\* the rows of entry rid mirror the rows of entry eid index by index, sides exchanged
LinesSwapped(rid, eid) ==
  /\ {l.line_index : l \in EntryLines(rid)} = {l.line_index : l \in EntryLines(eid)}
  /\ \A lr \in EntryLines(rid), le \in EntryLines(eid) :
       lr.line_index = le.line_index =>
         /\ lr.account_id = le.account_id
         /\ lr.debit_cents = le.credit_cents
         /\ lr.credit_cents = le.debit_cents

\* the rows of entry rid repeat the rows of entry eid index by index
LinesRepeated(rid, eid) ==
  /\ {l.line_index : l \in EntryLines(rid)} = {l.line_index : l \in EntryLines(eid)}
  /\ \A lr \in EntryLines(rid), le \in EntryLines(eid) :
       lr.line_index = le.line_index =>
         /\ lr.account_id = le.account_id
         /\ lr.debit_cents = le.debit_cents
         /\ lr.credit_cents = le.credit_cents

(* C18: an entry R posted by the reversal of an existing entry E carries
   reverses_entry_id = E.id, is another entry than E, and has for every
   line_index the account of E's line with its debit and credit exchanged. *)
C18_ReversalSwapsLines ==
  \A r \in journal_entries :
    r.reverses_entry_id # NoId =>
      \E e \in journal_entries :
        /\ e.id = r.reverses_entry_id
        /\ e.id # r.id
        /\ EntryLines(r.id) # {}
        /\ LinesSwapped(r.id, e.id)

\* a reversal is persisted: a debit line of the original is a credit line of the reversal
C18_Witness ==
  \E r \in journal_entries, e \in journal_entries :
    /\ r.reverses_entry_id = e.id
    /\ \E le \in EntryLines(e.id), lr \in EntryLines(r.id) :
         /\ le.line_index = lr.line_index
         /\ le.debit_cents > 0
         /\ lr.credit_cents = le.debit_cents

(* C19: when R reverses E and R2 reverses R, R2 is an entry different from E
   and from R whose lines have, index by index, the account, debit_cents and
   credit_cents of E's lines. *)
C19_DoubleReversalRestores ==
  \A e \in journal_entries, r \in journal_entries, r2 \in journal_entries :
    (r.reverses_entry_id = e.id /\ r2.reverses_entry_id = r.id) =>
      /\ r2.id # e.id
      /\ r2.id # r.id
      /\ LinesRepeated(r2.id, e.id)

\* a chain E, R, R2 is persisted, E's first line being a credit
C19_Witness ==
  \E e \in journal_entries, r \in journal_entries, r2 \in journal_entries :
    /\ e.reverses_entry_id = NoId
    /\ r.reverses_entry_id = e.id
    /\ r2.reverses_entry_id = r.id
    /\ \E l \in EntryLines(e.id) : l.credit_cents > 0 /\ \A m \in EntryLines(e.id) : l.line_index <= m.line_index


\* handler p is inside a create call whose candidate names an entry the ledger does not hold
NamesMissingEntry(p) ==
  /\ pc[p] # "idle"
  /\ req[p].payload.reverses_entry_id # NoId
  /\ findById(req[p].payload.reverses_entry_id) = {}

(* C20: in every reachable state each persisted entry whose reverses_entry_id
   is set refers to another entry of the ledger with an earlier posted_at; a
   createJournalEntry call whose candidate names an entry the ledger does not
   hold changes no table at any of its steps and does not end with an entry,
   and a createReversalEntry call on such an id ends at once with a failure
   and changes no table. *)
C20_ReversalTargetsExist ==
  /\ [](\A r \in journal_entries :
          r.reverses_entry_id # NoId =>
            \E e \in journal_entries : /\ e.id = r.reverses_entry_id
                                       /\ e.id # r.id
                                       /\ e.posted_at < r.posted_at)
  /\ [][\A p \in Procs :
          /\ NamesMissingEntry(p) =>
               /\ TablesUnchanged
               /\ pc'[p] = "idle" => res'[p].status # "ok"
          /\ \A id \in EntryIds, n \in Narrations, d \in Dates, k \in {NoKey} \cup Keys :
               (pc[p] = "idle" /\ findById(id) = {} /\ createReversalEntry(p, id, n, d, k)) =>
                  /\ TablesUnchanged
                  /\ pc'[p] = "idle"
                  /\ res'[p].status \notin {"ok", "none"}]_vars

\* a candidate naming an entry the ledger does not hold was refused, nothing persisted
C20_Witness ==
  /\ res["p1"].msg = "Reversed entry not found"
  /\ accounts # {}
  /\ journal_entries = {}
  /\ journal_lines = {}
  /\ idempotency_keys = {}


-----------------------------------------------------------------------------
(* Maintenance of the idempotency records: IdempotencyService.cleanupOldRecords
   beside keyed postings of one client. *)

MaxAge == 2

\* created_at of a record: the clock value of the call that inserted its entry,
\* which records the key right after its transaction
RecordCreatedAt(r) ==
  MaxOf({e.posted_at : e \in {x \in journal_entries : x.id = r.entry_id}})

\* IdempotencyRepository.cleanup at clock value now:
\* DELETE ... WHERE created_at < CURRENT_TIMESTAMP - INTERVAL 'olderThanDays days'
IdempotencyRepository_cleanup(now, olderThanDays) ==
  {r \in idempotency_keys : ~(RecordCreatedAt(r) < now - olderThanDays)}

\* IdempotencyService.cleanupOldRecords
cleanupOldRecords(p, now, olderThanDays) ==
  /\ pc[p] = "idle"
  /\ now >= MaxOf({e.posted_at : e \in EntriesInUse})
  /\ IF olderThanDays < 1
     THEN /\ Finish(p, Throw("Error", "olderThanDays must be at least 1"))
          /\ UNCHANGED idempotency_keys
     ELSE /\ idempotency_keys' = IdempotencyRepository_cleanup(now, olderThanDays)
          /\ Finish(p, Return("records deleted", NoId))
  /\ UNCHANGED <<accounts, journal_entries, journal_lines, tx, origin, TZ, money, limiter, auth, pool>>

NextCleanup ==
  \/ \E a \in AccountInputs : createAccount("p1", a)
  \/ AccountRepository_create("p1")
  \/ \E d \in ConcPayloads, k \in Keys : createJournalEntry("p1", d, k)
  \/ validateRequest("p1")
  \/ returnExisting("p1")
  \/ validateAccountsExist("p1")
  \/ insertEntry("p1")
  \/ insertLine("p1")
  \/ commit("p1")
  \/ recordRequest("p1")
  \/ \E now \in 1..(MaxTimestamp + MaxAge), olderThanDays \in 0..MaxAge :
        cleanupOldRecords("p1", now, olderThanDays)

SpecCleanup == Init /\ [][NextCleanup]_vars

(* C21: there is at most one idempotency record per key, and a record, once
   created, is present with the same request_hash and entry_id in every later
   state, whatever operation runs (createJournalEntry, recordRequest,
   cleanupOldRecords). *)
C21_RecordsWriteOnce ==
  /\ [](\A r1 \in idempotency_keys, r2 \in idempotency_keys : r1.key = r2.key => r1 = r2)
  /\ [][\A r \in idempotency_keys : r \in idempotency_keys']_vars


-----------------------------------------------------------------------------
(* Accounts and error kinds *)

(* C22: a createAccount call with a code that an account already has ends
   with ConflictError and leaves the accounts as they are. *)
C22_DuplicateCodeConflict ==
  [][\A p \in Procs, a \in AccountInputs :
        (pc[p] = "idle" /\ findByCode(a.code) # {} /\ createAccount(p, a)) =>
           /\ pc'[p] = "idle"
           /\ res'[p].status = "ConflictError"
           /\ accounts' = accounts]_vars


(* C23: no two accounts share a code in any reachable state, also when two
   createAccount calls for one code have both passed the existence check:
   the insert of a call succeeds exactly when no account has the code yet,
   otherwise the call fails and inserts nothing; an account, once created,
   keeps its code, name and type. *)
C23_AccountCodesUnique ==
  /\ [](\A a1 \in accounts, a2 \in accounts : a1.code = a2.code => a1 = a2)
  /\ [][/\ \A a \in accounts : a \in accounts'
        /\ \A p \in Procs :
             (pc[p] = "acctInsert" /\ pc'[p] = "idle") =>
                /\ res'[p].status = "ok" <=> findByCode(req[p].account.code) = {}
                /\ res'[p].status = "ok" => Cardinality(accounts') = Cardinality(accounts) + 1
                /\ res'[p].status # "ok" => /\ res'[p].status = "ConflictError"
                                            /\ accounts' = accounts]_vars

\* two concurrent calls for one code have ended: one created the account, the other failed
C23_Witness ==
  \E p \in Procs, q \in Procs :
    /\ p # q
    /\ res[p].msg = "Account created"
    /\ res[q].status = "ConflictError"
    /\ res[q].msg = "Account already exists"
    /\ Cardinality(accounts) = 1


\* the account codes candidate d names
CodesOf(d) == {d.lines[i].account_code : i \in DOMAIN d.lines}

\* the message that names exactly the codes S, in some order
RECURSIVE NamesOfCodes(_)
NamesOfCodes(S) ==
  IF S = {} THEN {""}
  ELSE UNION { {IF rest = "" THEN c ELSE c \o ", " \o rest : rest \in NamesOfCodes(S \ {c})} : c \in S }

(* C24: a createJournalEntry call whose candidate names account codes that no
   account has ends with one NotFoundError whose message names every missing
   code, and changes no table; when every named code has an account the
   resolution yields exactly one account per distinct code. *)
C24_MissingCodesNotFound ==
  [][\A p \in Procs :
        /\ \A d \in AcceptedPayloads \cup RejectedPayloads, k \in {NoKey} \cup Keys :
             (/\ pc[p] = "idle"
              /\ pc'[p] = "idle"
              /\ missingCodes(CodesOf(d)) # {}
              /\ createJournalEntry(p, d, k)) =>
                 /\ res'[p].status = "NotFoundError"
                 /\ TablesUnchanged
        /\ (pc[p] \in {"idem", "dup", "resolve"} /\ missingCodes(CodesOf(req[p].payload)) # {}) =>
              /\ TablesUnchanged
              /\ pc'[p] \in {"idle", "dup", "resolve"}
              /\ (pc'[p] = "idle" /\ res'[p].status # "crashed") =>
                   /\ res'[p].status = "NotFoundError"
                   /\ res'[p].msg \in {"Accounts not found: " \o m :
                                         m \in NamesOfCodes(missingCodes(CodesOf(req[p].payload)))}
        /\ (pc[p] = "resolve" /\ missingCodes(CodesOf(req[p].payload)) = {}) =>
              \A c \in CodesOf(req[p].payload) :
                 Cardinality({a \in getAccountsByCodesWithValidation(CodesOf(req[p].payload)) :
                                a.code = c}) = 1]_vars


(* C25: unknown identifiers yield NotFoundError: getAccount and
   getAccountBalance for a code no account has, getJournalEntry for an id no
   entry has, and a createJournalEntry call whose reverses_entry_id names no
   entry each fail with NotFoundError. *)
C25_UnknownIdentifiersNotFound ==
  /\ [](\A c \in Codes :
          findByCode(c) = {} =>
            /\ AccountService_getAccount(c).status = "NotFoundError"
            /\ BalanceService_getAccountBalance(c, NoDate).status = "NotFoundError")
  /\ [](\A id \in EntryIds :
          findById(id) = {} => JournalService_getJournalEntry(id).status = "NotFoundError")
  /\ [][\A p \in Procs :
          (/\ pc[p] = "reversed"
           /\ findById(req[p].payload.reverses_entry_id) = {}
           /\ pc'[p] = "idle"
           /\ res'[p].status # "crashed") => res'[p].status = "NotFoundError"]_vars


\* debits - credits summed over the accounts of a type
NetDebitOfType(type) ==
  SumField({[account_code |-> a.code,
             net |-> BalanceDebits(a, NoDate) - BalanceCredits(a, NoDate)] :
               a \in {b \in accounts : b.type = type}}, "net")

(* C26: validateAccountingEquation reports assets as the sum of debits - credits
   over the Asset accounts, liabilities and equity as the sums of
   credits - debits over the Liability and the Equity accounts (an account with
   a contrary balance lowers its group's total), difference as
   assets - (liabilities + equity), and isValid exactly when difference is 0. *)
C26_AccountingEquation ==
  LET out == validateAccountingEquation(NoDate)
  IN /\ out.assets = NetDebitOfType("Asset")
     /\ out.liabilities = 0 - NetDebitOfType("Liability")
     /\ out.equity = 0 - NetDebitOfType("Equity")
     /\ out.difference = out.assets - (out.liabilities + out.equity)
     /\ out.isValid <=> out.difference = 0


-----------------------------------------------------------------------------
(* Retries that list the properties of the body in another order: one client,
   one candidate, one key; the first call lists them in the order of the schema. *)

\* the orders in which a body can list its properties
KeyOrders ==
  {o \in [DOMAIN SchemaKeys -> Range(SchemaKeys)] :
     \A i \in DOMAIN o, j \in DOMAIN o : o[i] = o[j] => i = j}

\* one candidate in every order of its properties
ReorderedPayloads ==
  [date : {1}, narration : Narrations, lines : {<<Dr("1001", 10), Cr("3001", 10)>>},
   reverses_entry_id : {NoId}, keys : KeyOrders]

\* bodies with the same values
SameValues(d1, d2) ==
  /\ d1.date = d2.date
  /\ d1.narration = d2.narration
  /\ d1.lines = d2.lines
  /\ d1.reverses_entry_id = d2.reverses_entry_id

retryReordered(p, entryData, idempotencyKey) ==
  /\ findByKey(idempotencyKey) = {} => entryData.keys = SchemaKeys
  /\ createJournalEntry(p, entryData, idempotencyKey)

NextHash ==
  \/ \E a \in AccountInputs : createAccount("p1", a)
  \/ AccountRepository_create("p1")
  \/ \E d \in ReorderedPayloads, k \in Keys : retryReordered("p1", d, k)
  \/ validateRequest("p1")
  \/ returnExisting("p1")
  \/ validateAccountsExist("p1")
  \/ insertEntry("p1")
  \/ insertLine("p1")
  \/ commit("p1")
  \/ recordRequest("p1")

SpecHash == Init /\ [][NextHash]_vars

(* C27: two request bodies with the same date, narration, reverses_entry_id
   and lines that list their properties in different orders have the same
   hash; a call under a recorded key whose body differs from the recorded one
   only in that order is answered as a replay with the recorded entry, never
   with a conflict, and posts no second entry. *)
C27_HashIgnoresKeyOrder ==
  /\ \A d1 \in ReorderedPayloads \cup AcceptedPayloads, d2 \in ReorderedPayloads :
       SameValues(d1, d2) => hashRequest(d1) = hashRequest(d2)
  /\ \A p \in Procs :
       /\ res[p].status # "ConflictError"
       /\ (pc[p] \in {"idem", "dup"} /\ findByKey(req[p].key) # {}) =>
            \A r \in findByKey(req[p].key) : r.request_hash = hashRequest(req[p].payload)
  /\ Cardinality(journal_entries) <= 1

\* a retry that lists lines first and date after narration is being answered as a replay
C27_Witness ==
  /\ pc["p1"] = "dup"
  /\ req["p1"].payload.keys = <<"lines", "narration", "date", "reverses_entry_id">>
  /\ \E r \in idempotency_keys : r.key = req["p1"].key /\ r.entry_id = req["p1"].entry_id


(* C28: a createJournalEntry call under a key that has a record is decided by
   the idempotency check alone: whatever its candidate (also one that fails
   validation or names unknown accounts) the call reaches the check, and from
   there it ends with the recorded entry or with ConflictError, changing no
   table. *)
C28_GuardDecidesRecordedKey ==
  [][\A p \in Procs :
        /\ \A k \in Keys :
             (pc[p] = "idle" /\ pc'[p] # "idem" /\ findByKey(k) # {}) =>
                \A d \in AcceptedPayloads \cup RejectedPayloads : ~createJournalEntry(p, d, k)
        /\ (pc[p] \in {"idem", "dup"} /\ findByKey(req[p].key) # {}) =>
              /\ TablesUnchanged
              /\ pc'[p] \in {"idle", "dup"}
              /\ (pc'[p] = "idle" /\ res'[p].status # "crashed") =>
                    \/ res'[p].status = "ConflictError"
                    \/ /\ res'[p].status = "ok"
                       /\ \E r \in findByKey(req[p].key) : res'[p].entry_id = r.entry_id]_vars

-----------------------------------------------------------------------------
(* Money codec on JavaScript numbers (IEEE-754 binary64)                   *)
(*                                                                         *)
(* A natural number beyond 32 bits is a sequence of base-10000 digits,     *)
(* least significant first, without a leading zero digit; <<>> is 0.       *)
(* A positive double is [m, e] with 2^52 <= m < 2^53 and value m * 2^e;    *)
(* every arithmetic operation rounds to the nearest double, ties to even.  *)

RECURSIVE BigOf(_)
BigOf(n) == IF n = 0 THEN <<>> ELSE <<n % 10000>> \o BigOf(n \div 10000)

RECURSIVE BigTrim(_)
BigTrim(N) ==
  IF N # <<>> /\ N[Len(N)] = 0 THEN BigTrim(SubSeq(N, 1, Len(N) - 1)) ELSE N

\* N + carry, carry a small natural
RECURSIVE BigPlus(_, _)
BigPlus(N, carry) ==
  IF carry = 0 THEN N
  ELSE IF N = <<>> THEN BigOf(carry)
  ELSE <<(Head(N) + carry) % 10000>> \o BigPlus(Tail(N), (Head(N) + carry) \div 10000)

\* N * k + carry, k a small positive natural
RECURSIVE BigTimes(_, _, _)
BigTimes(N, k, carry) ==
  IF N = <<>> THEN BigOf(carry)
  ELSE <<(Head(N) * k + carry) % 10000>>
         \o BigTimes(Tail(N), k, (Head(N) * k + carry) \div 10000)

\* long division of N by a small k, from the most significant digit, r the running remainder
RECURSIVE BigDivFrom(_, _, _)
BigDivFrom(N, k, r) ==
  IF N = <<>> THEN [q |-> <<>>, r |-> r]
  ELSE LET cur == r * 10000 + N[Len(N)]
           rest == BigDivFrom(SubSeq(N, 1, Len(N) - 1), k, cur % k)
       IN [q |-> rest.q \o <<cur \div k>>, r |-> rest.r]

\* quotient and remainder of N by a small k
BigDiv(N, k) == [q |-> BigTrim(BigDivFrom(N, k, 0).q), r |-> BigDivFrom(N, k, 0).r]

RECURSIVE BigLess(_, _)
BigLess(N, M) ==
  IF Len(N) # Len(M) THEN Len(N) < Len(M)
  ELSE IF N = <<>> THEN FALSE
  ELSE IF N[Len(N)] # M[Len(M)] THEN N[Len(N)] < M[Len(M)]
  ELSE BigLess(SubSeq(N, 1, Len(N) - 1), SubSeq(M, 1, Len(M) - 1))

\* N * 2^k, at most fifteen bits at a time
RECURSIVE BigShiftLeft(_, _)
BigShiftLeft(N, k) ==
  IF k <= 15 THEN BigTimes(N, 2 ^ k, 0) ELSE BigShiftLeft(BigTimes(N, 2 ^ 15, 0), k - 15)

\* floor(N / 2^t), at most fifteen bits at a time
RECURSIVE BigShiftRight(_, _)
BigShiftRight(N, t) ==
  IF t <= 15 THEN BigDiv(N, 2 ^ t).q ELSE BigShiftRight(BigDiv(N, 2 ^ 15).q, t - 15)

\* N / k rounded to the nearest integer, a tie to the even neighbour
RoundTiesToEven(N, k) ==
  LET d == BigDiv(N, k)
  IN IF 2 * d.r > k \/ (2 * d.r = k /\ d.q # <<>> /\ d.q[1] % 2 = 1)
     THEN BigPlus(d.q, 1) ELSE d.q

\* 2^52 <= N < 2^53: N has exactly 53 significant bits
HasSignificandWidth(N) ==
  ~BigLess(N, BigShiftLeft(<<1>>, 52)) /\ BigLess(N, BigShiftLeft(<<1>>, 53))

\* a significand that rounded up to 2^53 is 2^52 with the next exponent
DoubleNormal(m, e) ==
  IF m = BigShiftLeft(<<1>>, 53) THEN [m |-> BigShiftLeft(<<1>>, 52), e |-> e + 1]
  ELSE [m |-> m, e |-> e]

\* the double nearest to (N / d) * 2^e, for 0 <= N / d < 2^53 and a small d:
\* scale N up to a quotient of 53 significant bits, then round the quotient
DoubleOfRatio(N, d, e) ==
  IF N = <<>> THEN [m |-> <<>>, e |-> 0]
  ELSE LET k == CHOOSE j \in 0..60 : HasSignificandWidth(BigDiv(BigShiftLeft(N, j), d).q)
       IN DoubleNormal(RoundTiesToEven(BigShiftLeft(N, k), d), e - k)

\* the double nearest to P * 2^e, for P = 0 or 2^52 <= P < 2^60:
\* drop low bits until 53 significant bits remain, rounding what is dropped
DoubleOfProduct(P, e) ==
  IF P = <<>> THEN [m |-> <<>>, e |-> 0]
  ELSE LET s == CHOOSE j \in 0..7 : HasSignificandWidth(BigShiftRight(P, j))
       IN DoubleNormal(RoundTiesToEven(P, 2 ^ s), e + s)

\* Math.round on a non-negative double: floor(x + 1/2), exactly; the result is an integer below 2^53
Math_round(x) ==
  IF x.e >= 0 THEN x
  ELSE DoubleOfRatio(BigDiv(BigPlus(BigShiftRight(x.m, (0 - x.e) - 1), 1), 2).q, 1, 0)

\* Money.toCents on doubles: Math.round(amount * 100)
Money_toCents_double(amount) == Math_round(DoubleOfProduct(BigTimes(amount.m, 100, 0), amount.e))

\* Money.fromCents on doubles: cents / 100
Money_fromCents_double(cents) == DoubleOfRatio(cents.m, 100, cents.e)

MaxHundredths == 120

\* amounts handed to the codec, as counts of hundredths (the literal h / 100 is the double
\* nearest to it): every amount up to MaxHundredths,
\* the largest amounts of the unit tests (999999.99) and of an INTEGER column (21474836.47),
\* and a run of amounts above 2^45
MoneyAmounts ==
  {BigOf(i) : i \in 0..MaxHundredths}
    \cup {BigOf(99999999), BigOf(2147483647)}
    \cup {BigPlus(<<3100, 4041, 801, 3705>>, i) : i \in 0..MaxHundredths}

\* Money.toCents(amount)
Money_toCents_call ==
  /\ money.step = "amount"
  /\ money' = [money EXCEPT !.step = "cents", !.cents = Money_toCents_double(money.amount)]
  /\ UNCHANGED <<dbvars, pc, req, tx, res, origin, TZ, limiter, auth, pool>>

\* Money.fromCents(cents) on the result of toCents
Money_fromCents_call ==
  /\ money.step = "cents"
  /\ money' = [money EXCEPT !.step = "back", !.back = Money_fromCents_double(money.cents)]
  /\ UNCHANGED <<dbvars, pc, req, tx, res, origin, TZ, limiter, auth, pool>>

InitMoney ==
  /\ InitService
  /\ money \in {[NoMoney EXCEPT !.step = "amount", !.hundredths = h,
                                !.amount = DoubleOfRatio(h, 100, 0)] : h \in MoneyAmounts}
  /\ limiter = NoLimiter
  /\ auth = NoAuth
  /\ pool = NoPool

NextMoney ==
  \/ Money_toCents_call
  \/ Money_fromCents_call

SpecMoney == InitMoney /\ [][NextMoney]_vars

(* C29: for every non-negative amount x with at most two fractional digits,
   Money.toCents(x) is the integer x * 100 and Money.fromCents(Money.toCents(x))
   is x again *)
C29_MoneyRoundTrip ==
  /\ money.step \in {"cents", "back"} => money.cents = DoubleOfRatio(money.hundredths, 1, 0)
  /\ money.step = "back" => money.back = money.amount

-----------------------------------------------------------------------------
(* JournalRepository.findByDateRange *)

\* ORDER BY je.date, je.posted_at
RECURSIVE OrderByDatePostedAt(_)
OrderByDatePostedAt(S) ==
  IF S = {} THEN <<>>
  ELSE LET first == CHOOSE x \in S : \A y \in S :
                      \/ x.date < y.date
                      \/ x.date = y.date /\ x.posted_at <= y.posted_at
       IN <<first>> \o OrderByDatePostedAt(S \ {first})

\* SELECT je.*, json_agg(... ORDER BY jl.line_index) ... WHERE je.date >= $1 AND je.date <= $2
\* GROUP BY je.id ORDER BY je.date, je.posted_at
findByDateRange(from, to) ==
  OrderByDatePostedAt(
    {[id |-> e.id, date |-> e.date, narration |-> e.narration,
      reverses_entry_id |-> e.reverses_entry_id, posted_at |-> e.posted_at,
      lines |-> OrderByLineIndex({l \in journal_lines : l.entry_id = e.id})] :
       e \in {x \in journal_entries : x.date >= from /\ x.date <= to}})

(* C30: findByDateRange(from, to) returns exactly the entries with from <= date <= to,
   ordered by date and, among entries of one date, in the order in which they were
   inserted, also when concurrent transactions create them: after an entry has been
   added to the table, no result lists it before an entry of the same date that was
   in the table already *)
C30_DateRangeInsertionOrder ==
  [][journal_entries' # journal_entries =>
       \A from \in Dates, to \in Dates :
          LET r == findByDateRange(from, to)'
              before == {e.id : e \in journal_entries}
          IN /\ {r[i].id : i \in DOMAIN r}
                  = {e.id : e \in {x \in journal_entries' : x.date >= from /\ x.date <= to}}
             /\ \A i \in DOMAIN r, j \in DOMAIN r :
                  i < j => /\ r[i].date <= r[j].date
                           /\ (r[i].date = r[j].date /\ r[j].id \in before)
                                 => r[i].id \in before]_vars

-----------------------------------------------------------------------------
(* C33: every persisted entry with n lines has the line_index values 0..n-1, each
   once; findById returns its lines in ascending line_index; and when an entry is
   committed, the line at index i is on the account and side (with the amount) of
   line i of the submitted candidate *)
C33_LineIndexKeepsInputOrder ==
  /\ [](\A e \in journal_entries :
          LET lines == OrderByLineIndex(LinesOf(e.id))
          IN /\ Len(lines) = origin[e.id].n
             /\ \A i \in DOMAIN lines : lines[i].line_index = i - 1)
  /\ [][\A p \in Procs :
          (pc[p] = "lines" /\ journal_entries' # journal_entries) =>
             \A e \in journal_entries' \ journal_entries :
                EntryAsPosted(e.id)' = PayloadAsPosted(req[p].payload)]_vars

\* a persisted entry whose first line is on 3001 and whose second is on 1001
C33_Witness ==
  \E e \in journal_entries :
     LET lines == OrderByLineIndex(LinesOf(e.id))
     IN /\ Len(lines) = 2
        /\ lines[1].account_code = "3001" /\ lines[1].line_index = 0
        /\ lines[2].account_code = "1001" /\ lines[2].line_index = 1

-----------------------------------------------------------------------------
(* C34: createReversalEntry(E, narration, date, key) for an existing entry E is the
   step createJournalEntry makes with the swapped lines of E, reverses_entry_id =
   E.id and the same key; no persisted reversal is dated after the current date;
   and a call that replays a recorded reversal returns that reversal and changes
   neither entries, lines nor records *)
C34_ReversalIsOrdinaryPosting ==
  /\ [][\A p \in Procs, id \in EntryIds :
          (pc[p] = "idle" /\ findById(id) # {}) =>
             \A n \in Narrations, d \in Dates, k \in {NoKey} \cup Keys :
                createReversalEntry(p, id, n, d, k)
                  <=> createJournalEntry(p, reversalEntryData(id, n, d), k)]_vars
  /\ [](\A e \in journal_entries : e.reverses_entry_id # NoId => e.date <= Today)
  /\ [][\A p \in Procs :
          (pc[p] \in {"idem", "dup"} /\ req[p].payload.reverses_entry_id # NoId /\ Replay(p)) =>
             /\ TablesUnchanged
             /\ \/ pc'[p] \in {"idem", "dup"}
                \/ pc'[p] = "idle" /\ res'[p].status = "crashed"
                \/ /\ pc'[p] = "idle"
                   /\ res'[p].status = "ok"
                   /\ res'[p].entry_id = RecordOf(p).entry_id]_vars

-----------------------------------------------------------------------------
(* C35: when an entry E and exactly one reversal R of E are posted, every account's
   balance (debits - credits) without an as-of date, and with any as-of date on or
   after the dates of E and R, is the balance over the account's lines of the other
   entries alone: the lines of E and R cancel; the balance of an account E touches
   is available for each of these dates *)
C35_ReversalCancelsOriginal ==
  \A E \in journal_entries, R \in journal_entries :
    (R.reverses_entry_id = E.id
       /\ \A X \in journal_entries : X.reverses_entry_id = E.id => X = R) =>
      \A a \in accounts, asOf \in {NoDate} \cup {D \in Dates : D >= E.date /\ D >= R.date} :
         LET out == BalanceService_getAccountBalance(a.code, asOf)
             others == {l \in journal_lines :
                          /\ l.account_id = a.id
                          /\ l.entry_id \notin {E.id, R.id}
                          /\ \E e \in journal_entries :
                               e.id = l.entry_id /\ (asOf = NoDate \/ e.date <= asOf)}
         IN /\ out.status = "ok" =>
                 out.balance = SumField(others, "debit_cents") - SumField(others, "credit_cents")
            /\ (asOf = NoDate \/ \E l \in EntryLines(E.id) : l.account_id = a.id) =>
                 out.status = "ok"

\* an entry, its reversal, and a third entry that leaves a balance on 1001
C35_Witness ==
  /\ Cardinality(journal_entries) = 3
  /\ \E E \in journal_entries, R \in journal_entries :
        /\ R.reverses_entry_id = E.id
        /\ \A X \in journal_entries : X.reverses_entry_id = E.id => X = R
        /\ R.date > E.date
  /\ BalanceService_getAccountBalance("1001", NoDate).balance # 0

-----------------------------------------------------------------------------
(* A failed posting and its retry under the same key: client calls are made one at a
   time, every call carries the key; the second handler serves the calls made after a
   call served by the first one has failed. *)

\* a later createJournalEntry call, made once the call served by q has been rejected
retryAfterFailure(p, q, entryData, idempotencyKey) ==
  /\ pc[q] = "idle"
  /\ res[q].status \in {"ValidationError", "NotFoundError"}
  /\ createJournalEntry(p, entryData, idempotencyKey)

NextRetry ==
  \/ \E a \in AccountInputs : createAccount("p1", a)
  \/ AccountRepository_create("p1")
  \/ \E d \in ConcPayloads \cup RejectedPayloads
                \cup {x \in AcceptedPayloads : x.date = 1 /\ x.reverses_entry_id # NoId
                                                /\ x.lines = <<Cr("1001", 10), Dr("3001", 10)>>},
        k \in Keys :
        pc["p2"] = "idle" /\ createJournalEntry("p1", d, k)
  \/ \E d \in ConcPayloads, k \in Keys : retryAfterFailure("p2", "p1", d, k)
  \/ \E p \in Procs : validateRequest(p)
  \/ \E p \in Procs : returnExisting(p)
  \/ \E p \in Procs : validateAccountsExist(p)
  \/ \E p \in Procs : validateReversedEntry(p)
  \/ \E p \in Procs : insertEntry(p)
  \/ \E p \in Procs : insertLine(p)
  \/ \E p \in Procs : commit(p)
  \/ \E p \in Procs : recordRequest(p)

SpecRetry == Init /\ [][NextRetry]_vars

(* C36: a createJournalEntry call with key K that is rejected before anything is
   persisted (validation, unknown account code, unknown reversed entry) changes no
   table, so every record belongs to a persisted entry; a later call with K, K still
   unrecorded, is treated as new by the idempotency check, is not rejected when its
   candidate is valid, and its commit adds an entry, which is then recorded for K *)
C36_FailedRequestKeepsKeyFree ==
  /\ [](\A r \in idempotency_keys : findById(r.entry_id) # {})
  /\ [][\A p \in Procs :
          /\ (pc'[p] = "idle" /\ (pc[p] # "idle" \/ res'[p] # res[p])
                /\ res'[p].status \in {"ValidationError", "NotFoundError"}) => TablesUnchanged
          /\ (pc[p] = "idem" /\ findByKey(req[p].key) = {}) => pc'[p] \in {"idem", "resolve"}
          /\ (pc[p] \in {"idem", "resolve", "reversed"} /\ findByKey(req[p].key) = {}
                /\ ValidPayload(req[p].payload)) => pc'[p] # "idle"
          /\ (pc[p] = "lines" /\ pc'[p] = "record") =>
                \E e \in journal_entries' \ journal_entries : req'[p].entry_id = e.id
          /\ (pc[p] = "record" /\ findByKey(req[p].key) = {} /\ pc'[p] = "idle") =>
                /\ res'[p].status = "ok"
                /\ \E r \in idempotency_keys' :
                      r.key = req[p].key /\ r.entry_id = res'[p].entry_id]_vars

\* the first call under the key was rejected, the later call under the key created
\* the entry that is recorded for it
C36_Witness ==
  /\ res["p1"].status \in {"ValidationError", "NotFoundError"}
  /\ res["p2"].status = "ok" /\ res["p2"].msg = "created entry"
  /\ \E r \in idempotency_keys : r.key \in Keys /\ r.entry_id = res["p2"].entry_id
  /\ Cardinality(journal_entries) = 1

-----------------------------------------------------------------------------
(* C37: posting an entry dated strictly after D leaves getAccountBalance(code,
   asOf = D) for every account, and getTrialBalance(from, to) with its rows for
   every range with to <= D, exactly as they were before the posting. *)
C37_AsOfStableUnderLaterPostings ==
  [][\A p \in Procs :
       (pc[p] = "lines" /\ journal_entries' # journal_entries) =>
         \A e \in journal_entries' \ journal_entries, D \in Dates :
           e.date > D =>
             /\ \A code \in Codes :
                  BalanceService_getAccountBalance(code, D)' = BalanceService_getAccountBalance(code, D)
             /\ \A from \in Dates, to \in Dates :
                  (from <= to /\ to <= D) =>
                    /\ getTrialBalance_rows(from, to)' = getTrialBalance_rows(from, to)
                    /\ BalanceService_getTrialBalance(from, to)'
                         = BalanceService_getTrialBalance(from, to)]_vars

-----------------------------------------------------------------------------
(* C38: createReversalEntry checks neither whether the original already has a
   reversal nor whether it is one itself: a call without a recorded key on an
   existing entry succeeds exactly when its date passes the date rule, every
   successful call appends exactly one further entry that references the
   original, and every reversal entry has equal, non-zero debit and credit
   totals. *)
C38_ReversalNotLimitedToOnce ==
  /\ [](\A r \in journal_entries :
          r.reverses_entry_id # NoId =>
            /\ findById(r.reverses_entry_id) # {}
            /\ SumField(EntryLines(r.id), "debit_cents") = SumField(EntryLines(r.id), "credit_cents")
            /\ SumField(EntryLines(r.id), "debit_cents") > 0)
  /\ [][\A p \in Procs :
          LET d == req[p].payload
          IN (/\ pc[p] # "idle"
              /\ pc'[p] = "idle"
              /\ d.reverses_entry_id # NoId
              /\ findById(d.reverses_entry_id) # {}) =>
               /\ res'[p].status = "ok" <=> ~futureDate(d.date)
               /\ res'[p].status = "ok" =>
                    \E r \in journal_entries' \ journal_entries :
                      /\ journal_entries' = journal_entries \cup {r}
                      /\ r.id = res'[p].entry_id
                      /\ r.reverses_entry_id = d.reverses_entry_id
                      /\ EntryLines(r.id)' # {}
               /\ res'[p].status # "ok" => TablesUnchanged]_vars

\* an original entry has two reversals, the later of them just posted
C38_Witness ==
  \E e \in journal_entries, r1 \in journal_entries, r2 \in journal_entries :
    /\ e.reverses_entry_id = NoId
    /\ r1.id # r2.id
    /\ r1.reverses_entry_id = e.id
    /\ r2.reverses_entry_id = e.id
    /\ res["p1"].status = "ok"
    /\ res["p1"].entry_id \in {r1.id, r2.id}

-----------------------------------------------------------------------------
(* Activity queries *)

\* AccountRepository.hasTransactions: SELECT 1 FROM journal_lines WHERE account_id = $1 LIMIT 1
hasTransactions(accountId) == {l \in journal_lines : l.account_id = accountId} # {}

\* AccountService.canDeleteAccount: what the call returns or throws
canDeleteAccount(code) ==
  IF AccountService_getAccount(code).status # "ok"
  THEN [status |-> AccountService_getAccount(code).status, value |-> FALSE]
  ELSE [status |-> "ok", value |-> ~hasTransactions((CHOOSE a \in findByCode(code) : TRUE).id)]

\* variant: activity is a non-zero balance, and NotFoundError is not caught
hasAccountActivity_NonZeroBalance(accountCode, asOfDate) ==
  LET balance == BalanceService_getAccountBalance(accountCode, asOfDate)
  IN IF balance.status = "ok"
     THEN [status |-> "ok", value |-> balance.balance # 0]
     ELSE [status |-> balance.status, value |-> FALSE]

\* BalanceService.hasAccountActivity: what the call returns or throws
hasAccountActivity(accountCode, asOfDate) ==
  LET balance == BalanceService_getAccountBalance(accountCode, asOfDate)
  IN IF balance.status = "ok"
     THEN [status |-> "ok", value |-> (balance.debits > 0 \/ balance.credits > 0)]
     ELSE IF balance.status = "NotFoundError"
          THEN [status |-> "ok", value |-> FALSE]
          ELSE [status |-> balance.status, value |-> FALSE]

(* C39: for an existing account hasAccountActivity(code) without asOf returns
   true exactly when a journal line references the account, which is exactly
   when canDeleteAccount(code) returns false; with an asOf date it returns true
   exactly when a line of the account belongs to an entry dated on or before
   asOf, and returns false, without throwing, when there is none. *)
C39_ActivityAgreesWithLedger ==
  \A a \in accounts :
    /\ hasAccountActivity(a.code, NoDate).status = "ok"
    /\ hasAccountActivity(a.code, NoDate).value
         <=> (\E l \in journal_lines : l.account_id = a.id)
    /\ canDeleteAccount(a.code).status = "ok"
    /\ hasAccountActivity(a.code, NoDate).value <=> ~canDeleteAccount(a.code).value
    /\ \A asOf \in Dates :
         /\ hasAccountActivity(a.code, asOf).status = "ok"
         /\ hasAccountActivity(a.code, asOf).value
              <=> (\E l \in journal_lines, e \in journal_entries :
                     l.account_id = a.id /\ e.id = l.entry_id /\ e.date <= asOf)

\* an account whose debits equal its credits, with every line dated after day 1
C39_Witness ==
  \E a \in accounts :
    /\ hasTransactions(a.id)
    /\ SumField({l \in journal_lines : l.account_id = a.id}, "debit_cents")
         = SumField({l \in journal_lines : l.account_id = a.id}, "credit_cents")
    /\ \A l \in journal_lines, e \in journal_entries :
         (l.account_id = a.id /\ e.id = l.entry_id) => e.date > 1
    /\ hasAccountActivity(a.code, NoDate).value
    /\ ~hasAccountActivity(a.code, 1).value
    /\ ~canDeleteAccount(a.code).value

-----------------------------------------------------------------------------
(* AuthMiddleware.rateLimit, installed in front of every route *)

MaxEarly == 1

MaxRefused == 1

\* rateLimit(req, res, next): req.apiKey is not set yet when it runs (index.ts
\* installs it before the router's validateApiKey), so the key is req.ip
rateLimit(ip) ==
  LET key == ip
      now == limiter.now
      i == CHOOSE j \in DOMAIN Ticks : Ticks[j] = now
      kept == [k \in {x \in DOMAIN limiter.requests : ~(now > limiter.requests[x].resetTime)}
                 |-> limiter.requests[k]]
      found == IF key \in DOMAIN kept /\ ~(now > kept[key].resetTime)
               THEN kept[key]
               ELSE [count |-> 0, resetTime |-> now + WINDOW_SIZE]
      entry == [found EXCEPT !.count = @ + 1]
  IN /\ (now = 0 \/ ip # "ip1") => limiter.passed[ip][1] < MaxEarly
     /\ ip # "ip1" => now = 0
     /\ entry.count <= MAX_REQUESTS + MaxRefused
     /\ IF entry.count > MAX_REQUESTS
        THEN limiter' = [limiter EXCEPT !.requests = (key :> entry) @@ kept,
                                        !.last = [key |-> key, status |-> 429,
                                                  code |-> "RATE_LIMIT_EXCEEDED", next |-> FALSE]]
        ELSE limiter' = [limiter EXCEPT !.requests = (key :> entry) @@ kept,
                                        !.passed[key][i] = @ + 1,
                                        !.last = [key |-> key, status |-> 0, code |-> "", next |-> TRUE]]
     /\ UNCHANGED <<dbvars, pc, req, tx, res, origin, TZ, money, auth, pool>>

\* Date.now() moves on to a later instant
DateNow ==
  /\ \E j \in DOMAIN Ticks : Ticks[j] > limiter.now /\ limiter' = [limiter EXCEPT !.now = Ticks[j]]
  /\ UNCHANGED <<dbvars, pc, req, tx, res, origin, TZ, money, auth, pool>>

NextRate ==
  \/ \E ip \in Clients : rateLimit(ip)
  \/ DateNow

SpecRate == Init /\ [][NextRate]_vars

\* requests of client k let through at the instants Ticks[i] .. Ticks[j]
PassedBetween(k, i, j) ==
  SumField({[tick |-> t, n |-> limiter.passed[k][t]] : t \in i..j}, "n")

(* C31: for each client key the rate limiter lets through at most 100 requests
   in any one-minute interval; every further request of that client within the
   minute is answered 429 with RATE_LIMIT_EXCEEDED and is not handed to next. *)
C31_RateLimit ==
  /\ [](\A k \in Clients, i \in DOMAIN Ticks, j \in DOMAIN Ticks :
          (i <= j /\ Ticks[j] - Ticks[i] < WINDOW_SIZE) => PassedBetween(k, i, j) <= MAX_REQUESTS)
  /\ [][\A k \in Clients :
          (limiter'.last # limiter.last \/ limiter'.requests # limiter.requests) /\ limiter'.last.key = k =>
            LET i == CHOOSE j \in DOMAIN Ticks : Ticks[j] = limiter.now
                first == CHOOSE f \in 1..i :
                           /\ limiter.now - Ticks[f] < WINDOW_SIZE
                           /\ \A g \in 1..i : limiter.now - Ticks[g] < WINDOW_SIZE => f <= g
            IN IF PassedBetween(k, first, i) >= MAX_REQUESTS
               THEN /\ limiter'.last = [key |-> k, status |-> 429,
                                        code |-> "RATE_LIMIT_EXCEEDED", next |-> FALSE]
                    /\ limiter'.passed = limiter.passed
               ELSE limiter'.last.next => limiter'.passed[k][i] = limiter.passed[k][i] + 1]_vars

-----------------------------------------------------------------------------
(* index.ts and the router: which requests reach a handler *)

\* the router's table below router.use(validateApiKey); "" is the 404 handler of index.ts
routeOf(method, path) ==
  IF method = "POST" /\ path = "/accounts" THEN "createAccount"
  ELSE IF method = "GET" /\ path = "/accounts" THEN "getAccounts"
  ELSE IF method = "POST" /\ path = "/journal-entries" THEN "createJournalEntry"
  ELSE IF method = "GET" /\ path = "/journal-entries" THEN "getJournalEntries"
  ELSE IF method = "GET" /\ path = "/accounts/:code/balance" THEN "getAccountBalance"
  ELSE IF method = "GET" /\ path = "/reports/trial-balance" THEN "getTrialBalance"
  ELSE ""

\* a request arrives: the rate limiter, app.get('/health'), app.get('/'), the router's
\* /openapi.yaml, then validateApiKey up to its first await; header "undefined" is no header
request(method, path, header, limited) ==
  /\ auth.step = "idle"
  /\ LET r == [auth EXCEPT !.method = method, !.path = path, !.header = header,
                           !.status = 0, !.handler = "", !.next = FALSE, !.apiKey = ""]
     IN auth' =
          IF limited THEN [r EXCEPT !.status = 429]
          ELSE IF method = "GET" /\ path = "/health" THEN [r EXCEPT !.status = 200, !.handler = "health"]
          ELSE IF method = "GET" /\ path = "/" THEN [r EXCEPT !.status = 200, !.handler = "root"]
          ELSE IF method = "GET" /\ path = "/openapi.yaml" THEN [r EXCEPT !.status = 200, !.handler = "openapi"]
          ELSE IF header \in {"undefined", ""} THEN [r EXCEPT !.status = 401]
          ELSE IF header = " " THEN [r EXCEPT !.status = 401]
          ELSE [r EXCEPT !.step = "select"]
  /\ UNCHANGED <<dbvars, pc, req, tx, res, origin, TZ, money, limiter, pool>>

\* variant: the lookup does not ask for is_active = true
selectApiKey_AnyKey ==
  /\ auth.step = "select"
  /\ \/ auth' = [auth EXCEPT !.step = "idle", !.status = 500]
     \/ auth' = IF {k \in auth.api_keys : k.key = auth.header} = {}
                THEN [auth EXCEPT !.step = "idle", !.status = 401]
                ELSE [auth EXCEPT !.step = "update"]
  /\ UNCHANGED <<dbvars, pc, req, tx, res, origin, TZ, money, limiter, pool>>

\* SELECT ... FROM api_keys WHERE key = $1 AND is_active = true; the query may throw
selectApiKey ==
  /\ auth.step = "select"
  /\ \/ auth' = [auth EXCEPT !.step = "idle", !.status = 500]
     \/ auth' = IF {k \in auth.api_keys : k.key = auth.header /\ k.is_active} = {}
                THEN [auth EXCEPT !.step = "idle", !.status = 401]
                ELSE [auth EXCEPT !.step = "update"]
  /\ UNCHANGED <<dbvars, pc, req, tx, res, origin, TZ, money, limiter, pool>>

\* UPDATE api_keys SET last_used_at (the query may throw); req.apiKey = apiKey; next():
\* extractIdempotencyKey, then the route's handler or the 404 handler
updateLastUsed ==
  /\ auth.step = "update"
  /\ \/ auth' = [auth EXCEPT !.step = "idle", !.status = 500]
     \/ auth' = [auth EXCEPT !.step = "idle",
                             !.api_keys = {IF k.key = auth.header THEN [k EXCEPT !.used = TRUE] ELSE k :
                                             k \in auth.api_keys},
                             !.apiKey = auth.header,
                             !.next = TRUE,
                             !.handler = routeOf(auth.method, auth.path),
                             !.status = IF routeOf(auth.method, auth.path) = "" THEN 404 ELSE 0]
  /\ UNCHANGED <<dbvars, pc, req, tx, res, origin, TZ, money, limiter, pool>>

\* table api_keys as seeded: an active key, an inactive key, either, or none
InitAuth ==
  /\ InitService
  /\ money = NoMoney
  /\ limiter = NoLimiter
  /\ pool = NoPool
  /\ auth \in {[NoAuth EXCEPT !.api_keys = T] :
                 T \in SUBSET {[key |-> "ka", is_active |-> TRUE, used |-> FALSE],
                               [key |-> "kb", is_active |-> FALSE, used |-> FALSE]}}

NextAuth ==
  \/ \E method \in {"GET", "POST"},
        path \in {"/health", "/", "/openapi.yaml", "/accounts", "/journal-entries",
                  "/accounts/:code/balance", "/reports/trial-balance", "/nothing"},
        header \in {"undefined", "", " ", "ka", "kb", "kz"},
        limited \in BOOLEAN :
        request(method, path, header, limited)
  \/ selectApiKey
  \/ updateLastUsed

SpecAuth == InitAuth /\ [][NextAuth]_vars

\* the X-API-Key header of the request names an active row of api_keys
HasActiveKey == \E k \in auth.api_keys : k.key = auth.header /\ k.is_active

\* the request was answered, or handed to a handler, and it needed a key
Answered ==
  /\ auth.step = "idle"
  /\ auth.path # ""
  /\ ~(auth.method = "GET" /\ auth.path \in {"/health", "/", "/openapi.yaml"})

(* C32: a request whose X-API-Key header is missing, empty, or not an active key
   of api_keys is answered 401, next() is never called for it and no account,
   journal-entry, balance or report handler runs; without a key only the
   health, root and OpenAPI handlers are reachable. *)
C32_NoHandlerWithoutActiveKey ==
  /\ ~HasActiveKey => /\ ~auth.next
                      /\ auth.apiKey = ""
                      /\ auth.handler \in {"", "health", "root", "openapi"}
  /\ (Answered /\ ~HasActiveKey) => (auth.status = 401 /\ auth.handler = "")

(* C32 as amended: such a request is answered 401, or 429 when the rate limiter
   refuses it first, or 500 when a query of the key check throws (never for a
   missing, empty or blank header); next() is never called for it and only the
   health, root and OpenAPI handlers are reachable without an active key. *)
C32_NoHandlerWithoutActiveKey_Amended ==
  /\ ~HasActiveKey => /\ ~auth.next
                      /\ auth.apiKey = ""
                      /\ auth.handler \in {"", "health", "root", "openapi"}
  /\ (Answered /\ ~HasActiveKey) =>
       /\ auth.status \in {401, 429, 500}
       /\ auth.handler = ""
       /\ auth.status = 500 => auth.header \notin {"undefined", "", " "}
  /\ auth.step \in {"select", "update"} => (auth.status = 0 /\ auth.handler = "" /\ ~auth.next)
  /\ auth.step = "update" => HasActiveKey

\* POST /journal-entries with the inactive key of the table was answered 401
C32_Witness ==
  /\ Answered
  /\ auth.method = "POST"
  /\ auth.path = "/journal-entries"
  /\ \E k \in auth.api_keys : k.key = auth.header /\ ~k.is_active
  /\ auth.status = 401
  /\ auth.handler = ""

-----------------------------------------------------------------------------
(* Database.transaction(callback): one step per await; the callback's effect is
   the row named by the number of the call *)

MaxCalls == 3

\* const client = await this.pool.connect(): outside the try, a failure is thrown as it is
transaction ==
  /\ pool.step = "idle"
  /\ pool.calls < MaxCalls
  /\ LET call == [pool EXCEPT !.calls = @ + 1, !.sent = <<>>, !.written = {}, !.released = 0,
                              !.outcome = "", !.caught = "", !.error = ""]
     IN \/ pool' = [call EXCEPT !.step = "begin", !.taken = @ + 1]
        \/ pool' = [call EXCEPT !.outcome = "threw", !.error = "connect"]
  /\ UNCHANGED <<dbvars, pc, req, tx, res, origin, TZ, money, limiter, auth>>

\* await client.query('BEGIN')
begin ==
  /\ pool.step = "begin"
  /\ \/ pool' = [pool EXCEPT !.sent = Append(@, "BEGIN"), !.step = "callback"]
     \/ pool' = [pool EXCEPT !.sent = Append(@, "BEGIN"), !.step = "rollback", !.caught = "BEGIN"]
  /\ UNCHANGED <<dbvars, pc, req, tx, res, origin, TZ, money, limiter, auth>>

\* const result = await callback(client): it resolves after its writes, or throws
\* before or after them
callback ==
  /\ pool.step = "callback"
  /\ \/ pool' = [pool EXCEPT !.written = {pool.calls}, !.step = "commit"]
     \/ \E w \in {{}, {pool.calls}} :
          pool' = [pool EXCEPT !.written = w, !.step = "rollback", !.caught = "callback"]
  /\ UNCHANGED <<dbvars, pc, req, tx, res, origin, TZ, money, limiter, auth>>

\* await client.query('COMMIT'); return result; finally client.release()
commitTransaction ==
  /\ pool.step = "commit"
  /\ \/ pool' = [pool EXCEPT !.sent = Append(@, "COMMIT"),
                             !.committed = @ \cup pool.written, !.written = {},
                             !.step = "idle", !.outcome = "returned",
                             !.taken = @ - 1, !.released = @ + 1]
     \/ pool' = [pool EXCEPT !.sent = Append(@, "COMMIT"), !.step = "rollback", !.caught = "COMMIT"]
  /\ UNCHANGED <<dbvars, pc, req, tx, res, origin, TZ, money, limiter, auth>>

\* catch (error) { await client.query('ROLLBACK'); throw error } finally client.release():
\* when ROLLBACK throws, its error leaves the catch block instead of the one caught
rollbackTransaction ==
  /\ pool.step = "rollback"
  /\ \/ pool' = [pool EXCEPT !.sent = Append(@, "ROLLBACK"), !.written = {},
                             !.step = "idle", !.outcome = "threw", !.error = pool.caught,
                             !.taken = @ - 1, !.released = @ + 1]
     \/ pool' = [pool EXCEPT !.sent = Append(@, "ROLLBACK"), !.written = {},
                             !.step = "idle", !.outcome = "threw", !.error = "ROLLBACK",
                             !.taken = @ - 1, !.released = @ + 1]
  /\ UNCHANGED <<dbvars, pc, req, tx, res, origin, TZ, money, limiter, auth>>

NextPool ==
  \/ transaction
  \/ begin
  \/ callback
  \/ commitTransaction
  \/ rollbackTransaction

SpecPool == Init /\ [][NextPool]_vars

(* C40: transaction(callback) issues BEGIN, then runs the callback; when the
   callback resolves it issues COMMIT and returns; when BEGIN, the callback or
   COMMIT throws it issues ROLLBACK and rethrows that error, and no effect of
   the failed callback is committed; on every path the pooled client is
   released exactly once. *)
C40_TransactionProtocol ==
  /\ pool.step \in {"callback", "commit"} => pool.sent = <<"BEGIN">>
  /\ pool.written # {} => pool.step \in {"commit", "rollback"}
  /\ pool.outcome = "returned" =>
       /\ pool.sent = <<"BEGIN", "COMMIT">>
       /\ pool.calls \in pool.committed
  /\ (pool.outcome = "threw" /\ pool.error # "connect") =>
       /\ pool.caught \in {"BEGIN", "callback", "COMMIT"}
       /\ pool.sent # <<>> /\ pool.sent[Len(pool.sent)] = "ROLLBACK"
       /\ pool.error = pool.caught
       /\ pool.calls \notin pool.committed
  /\ pool.step = "idle" => pool.taken = 0
  /\ pool.step # "idle" => (pool.taken = 1 /\ pool.released = 0)
  /\ (pool.outcome # "" /\ pool.error # "connect") => pool.released = 1
  /\ pool.error = "connect" => (pool.released = 0 /\ pool.sent = <<>>)

====
